---- MODULE Spec2Model ----
(***************************************************************************)
(* Verification model of nuxt2-migrate: the Vue 2 Options-API to Vue 3     *)
(* Composition-API rewriter.                                               *)
(*                                                                         *)
(*   Spec        rewriteSFC, step by step (template rewriter, script       *)
(*               short-circuit, assembly, formatter)                       *)
(*   SpecBody    transformMethodBody over token-level method bodies        *)
(*   SpecStore   parseMapFunction / transformStoreUsageInMethods           *)
(*   SpecImports the import section of transformToCompositionAPI           *)
(*   SpecBatch   processPath over a batch of files                         *)
(*   SpecEmit    the emitted script sections, in order                     *)
(*   SpecCalls   $set / $delete / commit / dispatch rewrites               *)
(*   SpecTemplate store accessors in the template                          *)
(*   SpecEmits   extractEmits and the $emit rewrite                        *)
(*   SpecWatch   the watchers section                                      *)
(*   SpecMethods extractMethodsAndFetch and the methods section            *)
(*   SpecPasses  the pass order of transformMethodBody                     *)
(*   SpecHelpers helpers imported, declared and used                       *)
(***************************************************************************)
EXTENDS Integers, Sequences, FiniteSets, TLC

VARIABLES
    \* ---- rewriteSFC ----
    pc,         \* position inside rewriteSFC
    sfc,        \* the parsed input component (what compiler.parseComponent sees)
    log,        \* calls made on the HTMLRewriter, in order
    output,     \* template text collected from the rewriter's chunk callback
    result,     \* the re-assembled SFC text
    ret,        \* how rewriteSFC ended: [kind, val]
    werr,       \* an exception is pending inside the try block
    fmt,        \* outcome of prettier.format: "none", "ok" or "threw"
    \* ---- transformMethodBody ----
    bpc,        \* "in" before the call, "out" after it, "again" after a re-run
    comp,       \* the Component Model and usage flags the body is rewritten against
    body,       \* the body text handed to transformMethodBody
    out,        \* its result
    out2,       \* the result of running transformMethodBody on out
    \* ---- vuex mapping ----
    spc,        \* "parse" while map calls are parsed, "direct" after the direct-store
                \* discovery, "done" after the rewrite
    vuex,       \* options.vuex: namespace -> store config ("" = no entry)
    methodProps,\* vuexData.methodProps
    usedStores, \* vuexData.usedStores
    callOut,    \* rewritten this.<name>( calls, per local name
    \* ---- import section ----
    ipc,        \* "source", "model" after extraction, "emitted" after the transform
    cm,         \* the component: what its text holds, what the extractors found
    imports,    \* names imported by the emitted script
    emitted,    \* constructs emitted by the script body
    \* ---- the CLI batch run ----
    cpc,        \* "loop" while files are pending, "done" after the summary
    queue,      \* vueFiles: the files found in the directory, in order
    nextFile,   \* index of the file the loop is at
    config,     \* the loaded configuration object, shared by every file
    config0,    \* the configuration as loadConfig returned it
    outputs,    \* per file handled so far: did it succeed, what was written
    successCount, \* successCount of processPath
    \* ---- the configuration as given ----
    vuex0,      \* options.vuex as the caller passed it
    \* ---- the emitted script ----
    epc,        \* "model" before, "emitted" after transformToCompositionAPI
    model,      \* the Component Model handed to transformToCompositionAPI
    script,     \* the statements of the emitted script, in order
    \* ---- $set, $delete, commit and dispatch calls ----
    kpc,        \* "in" before, "out" after the statement is rewritten
    stmt,       \* the statement as written, with the options it is rewritten under
    rewritten,  \* the rewritten text, the store imports and the store instances
    \* ---- store accessors of the template ----
    tpc,        \* "in" before, "out" after the template went through the rewriter
    tplIn,      \* the store accessors of the template, with options.vuex
    tplOut,     \* the same places in the rewritten template
    \* ---- component events ----
    mpc,        \* "in" before, "out" after the component is rewritten
    emitCalls,  \* the this.$emit calls of the script, in source order
    emitOut,    \* the emitted defineEmits list and the calls as rewritten
    \* ---- watchers ----
    wpc,        \* "in" before, "out" after the watchers are emitted
    watchers,   \* the members of the watch object, in source order
    watchOut,   \* the watch calls of the emitted script, in order
    \* ---- methods ----
    dpc,        \* "in" before, "out" after the methods are emitted
    methods,    \* the method definitions of the script, in source order
    methodsOut, \* the functions of the emitted script, in order
    \* ---- the passes of transformMethodBody ----
    ppc,        \* the pass transformMethodBody is about to run (0: not called)
    passFlags,  \* the usage flags handed to transformMethodBody
    shapes,     \* the accessors of the body, each with the form it has by now
    \* ---- identifiers of the emitted script ----
    npc,        \* "in" before, "out" after the component is rewritten
    compUse,    \* what the component uses
    idents      \* the identifiers the output imports or declares, and those it uses

rvars == <<pc, sfc, log, output, result, ret, werr, fmt>>
bvars == <<bpc, comp, body, out, out2>>
svars == <<spc, vuex, methodProps, usedStores, callOut>>
ivars == <<ipc, cm, imports, emitted>>
cvars == <<cpc, queue, nextFile, config, config0, outputs, successCount>>
hvars == <<vuex0>>
evars == <<epc, model, script>>
kvars == <<kpc, stmt, rewritten>>
tvars == <<tpc, tplIn, tplOut>>
mvars == <<mpc, emitCalls, emitOut>>
wvars == <<wpc, watchers, watchOut>>
dvars == <<dpc, methods, methodsOut>>
pvars == <<ppc, passFlags, shapes>>
nvars == <<npc, compUse, idents>>
vars == <<rvars, bvars, svars, ivars, cvars, hvars, evars, kvars, tvars, mvars, wvars, dvars, pvars, nvars>>

(***************************************************************************)
(* Bounds                                                                  *)
(***************************************************************************)
MaxStyles == 2
MaxCats == 2        \* categories one name belongs to at once
MaxNest == 2        \* braces opening (closing) a body back to back
MaxCalls == 2       \* map helper calls spread into one methods object
MaxFiles == 3       \* .vue files found in the input directory
MaxHooks == 3       \* lifecycle methods of one component
MaxReturns == 2     \* return statements inside asyncData

(***************************************************************************)
(* Text of a single-file component: a sequence of blocks.                  *)
(***************************************************************************)
Block(tag, content, scoped, lang) ==
    [tag |-> tag, content |-> content, scoped |-> scoped, lang |-> lang]

\* style block i as the splitter reports it
StyleOf(i) == Block("style", "css", i = 1, IF i = 2 THEN "scss" ELSE "")

Styles(n) == [i \in 1..n |-> StyleOf(i)]

ScriptContent(s) == IF s.script = "code" THEN "js" ELSE ""

\* the input text, as written by the user
SfcText(s) ==
    (IF s.template THEN <<Block("template", "tpl", FALSE, "")>> ELSE <<>>)
    \o (IF s.script = "none" THEN <<>>
        ELSE <<Block("script", ScriptContent(s), FALSE, "")>>)
    \o Styles(s.styles)

\* what the HTMLRewriter hands to the chunk callback for a template
RewriteTemplate(t) == IF t = "tpl" THEN "tpl'" ELSE t

\* prettier.format: every block is re-printed
Pretty(text) == [i \in DOMAIN text |-> [text[i] EXCEPT !.content = <<"fmt", @>>]]

Value(v) == [kind |-> "value", val |-> v]
Thrown(e) == [kind |-> "error", val |-> e]
NoRet == [kind |-> "none", val |-> <<>>]

Inputs ==
    { s \in [template : BOOLEAN, script : {"none", "empty", "code"},
             styles : 0..MaxStyles, i18n : BOOLEAN, blank : BOOLEAN] :
        s.script # "code" => (~s.i18n /\ ~s.blank) }

(***************************************************************************)
(* rewriteSFC                                                              *)
(***************************************************************************)
BodyIdle ==
    /\ bpc = "idle" /\ comp = <<>> /\ body = <<>> /\ out = <<>> /\ out2 = <<>>
StoreIdle ==
    /\ spc = "idle" /\ vuex = <<>> /\ methodProps = <<>> /\ usedStores = {}
    /\ callOut = <<>>
ImportsIdle ==
    /\ ipc = "idle" /\ cm = <<>> /\ imports = {} /\ emitted = {}

BatchIdle ==
    /\ cpc = "idle"
    /\ queue = <<>>
    /\ nextFile = 0
    /\ config = <<>>
    /\ config0 = <<>>
    /\ outputs = <<>>
    /\ successCount = 0

ConfiguredIdle ==
    /\ vuex0 = <<>>

EmitIdle ==
    /\ epc = "idle"
    /\ model = <<>>
    /\ script = <<>>

CallsIdle ==
    /\ kpc = "idle"
    /\ stmt = <<>>
    /\ rewritten = <<>>

TemplateIdle ==
    /\ tpc = "idle"
    /\ tplIn = <<>>
    /\ tplOut = <<>>

EmitsIdle ==
    /\ mpc = "idle"
    /\ emitCalls = <<>>
    /\ emitOut = <<>>

WatchIdle ==
    /\ wpc = "idle"
    /\ watchers = <<>>
    /\ watchOut = <<>>

MethodsIdle ==
    /\ dpc = "idle"
    /\ methods = <<>>
    /\ methodsOut = <<>>

PassesIdle ==
    /\ ppc = 0
    /\ passFlags = {}
    /\ shapes = <<>>

HelpersIdle ==
    /\ npc = "idle"
    /\ compUse = <<>>
    /\ idents = <<>>

Init ==
    /\ pc = "start"
    /\ sfc \in Inputs
    /\ log = <<>>
    /\ output = ""
    /\ result = <<>>
    /\ ret = NoRet
    /\ werr = FALSE
    /\ fmt = "none"
    /\ BodyIdle /\ StoreIdle /\ ImportsIdle /\ BatchIdle /\ ConfiguredIdle /\ EmitIdle /\ CallsIdle /\ TemplateIdle /\ EmitsIdle /\ WatchIdle /\ MethodsIdle /\ PassesIdle /\ HelpersIdle

\* compiler.parseComponent, then `if (parsed.template)`
Parse ==
    /\ pc = "start"
    /\ pc' = IF sfc.template THEN "template" ELSE "script"
    /\ UNCHANGED <<sfc, log, output, result, ret, werr, fmt>>

\* new HTMLRewriter(...) and rewriter.on("*", ...)
Acquire ==
    /\ pc = "template"
    /\ log' = Append(log, "new")
    /\ pc' = "write"
    /\ UNCHANGED <<sfc, output, result, ret, werr, fmt>>

\* (mutant) write() throws and nothing releases the rewriter
WriteThrowsNoFinally ==
    /\ log' = Append(log, "write")
    /\ ret' = Thrown("rewriter")
    /\ pc' = "done"
    /\ UNCHANGED <<sfc, output, result, werr, fmt>>

\* the try block leaves through finally when write() throws
WriteThrows ==
    /\ log' = Append(log, "write")
    /\ werr' = TRUE
    /\ pc' = "finally"
    /\ UNCHANGED <<sfc, output, result, ret, fmt>>

\* await rewriter.write(encoder.encode(templateContent))
Write ==
    /\ pc = "write"
    /\ \/ /\ log' = Append(log, "write")
          /\ output' = RewriteTemplate("tpl")
          /\ pc' = "end"
          /\ UNCHANGED <<sfc, result, ret, werr, fmt>>
       \/ WriteThrows

\* await rewriter.end()
End ==
    /\ pc = "end"
    /\ log' = Append(log, "end")
    /\ werr' \in BOOLEAN
    /\ pc' = "finally"
    /\ UNCHANGED <<sfc, output, result, ret, fmt>>

\* finally { rewriter.free() }, then the pending exception, if any, leaves
\* rewriteSFC
Free ==
    /\ pc = "finally"
    /\ log' = Append(log, "free")
    /\ IF werr
         THEN /\ ret' = Thrown("rewriter")
              /\ pc' = "done"
         ELSE /\ ret' = ret
              /\ pc' = "script"
    /\ werr' = FALSE
    /\ UNCHANGED <<sfc, output, result, fmt>>

\* (mutant) the short-circuit returns the template it has rewritten so far
NoScriptRebuilt ==
    Value((IF sfc.template THEN <<Block("template", output, FALSE, "")>> ELSE <<>>)
          \o Styles(sfc.styles))

\* what `return` hands back when there is no script
NoScriptResult == Value(SfcText(sfc))

\* if (!parsed.script || !parsed.script.content) return sfc
ScriptCheck ==
    /\ pc = "script"
    /\ IF sfc.script \in {"none", "empty"}
         THEN /\ ret' = NoScriptResult
              /\ pc' = "done"
         ELSE /\ ret' = ret
              /\ pc' = "transform"
    /\ UNCHANGED <<sfc, log, output, result, werr, fmt>>

\* "Rebuild the SFC": template, script setup, nuxtI18n script, styles
Assemble(s, tpl) ==
    (IF s.template THEN <<Block("template", tpl, FALSE, "")>> ELSE <<>>)
    \o <<Block("script setup", IF s.blank THEN "" ELSE "setup", FALSE, "")>>
    \o (IF s.i18n THEN <<Block("script", "i18n", FALSE, "")>> ELSE <<>>)
    \o Styles(s.styles)

\* the tree-sitter parse, the extractors and transformToCompositionAPI; any
\* of them may throw, which leaves rewriteSFC
Transform ==
    /\ pc = "transform"
    /\ \/ /\ result' = Assemble(sfc, output)
          /\ pc' = "format"
          /\ ret' = ret
       \/ /\ ret' = Thrown("transform")
          /\ pc' = "done"
          /\ result' = result
    /\ UNCHANGED <<sfc, log, output, werr, fmt>>

\* (mutant) the formatter's exception is rethrown
FormatRethrows == Thrown("prettier")

\* catch (error) { console.warn(...); return result; }
FormatFails == Value(result)

\* try { return await prettier.format(result, ...) } catch ...
Format ==
    /\ pc = "format"
    /\ \/ /\ ret' = Value(Pretty(result))
          /\ fmt' = "ok"
       \/ /\ ret' = FormatFails
          /\ fmt' = "threw"
    /\ pc' = "done"
    /\ UNCHANGED <<sfc, log, output, result, werr>>

Next ==
    \/ (Parse /\ UNCHANGED <<bvars, svars, ivars, cvars, hvars, evars, kvars, tvars, mvars, wvars, dvars, pvars, nvars>>)
    \/ (Acquire /\ UNCHANGED <<bvars, svars, ivars, cvars, hvars, evars, kvars, tvars, mvars, wvars, dvars, pvars, nvars>>)
    \/ (Write /\ UNCHANGED <<bvars, svars, ivars, cvars, hvars, evars, kvars, tvars, mvars, wvars, dvars, pvars, nvars>>)
    \/ (End /\ UNCHANGED <<bvars, svars, ivars, cvars, hvars, evars, kvars, tvars, mvars, wvars, dvars, pvars, nvars>>)
    \/ (Free /\ UNCHANGED <<bvars, svars, ivars, cvars, hvars, evars, kvars, tvars, mvars, wvars, dvars, pvars, nvars>>)
    \/ (ScriptCheck /\ UNCHANGED <<bvars, svars, ivars, cvars, hvars, evars, kvars, tvars, mvars, wvars, dvars, pvars, nvars>>)
    \/ (Transform /\ UNCHANGED <<bvars, svars, ivars, cvars, hvars, evars, kvars, tvars, mvars, wvars, dvars, pvars, nvars>>)
    \/ (Format /\ UNCHANGED <<bvars, svars, ivars, cvars, hvars, evars, kvars, tvars, mvars, wvars, dvars, pvars, nvars>>)

Spec == Init /\ [][Next]_vars

(***************************************************************************)
(* transformMethodBody                                                     *)
(*                                                                         *)
(* A body is text.  The model keeps what the passes of transformMethodBody *)
(* look at: the lines, on each line the `this.<name>` references in order  *)
(* (each with the character class that follows the name, whether `...`     *)
(* precedes it, and whether it sits in code, in a string or in a comment), *)
(* the braces that open and close the text, and the FIXME comment lines    *)
(* put in front of a line.                                                 *)
(***************************************************************************)
Names == {"x", "y"}

Categories ==
    {"method",      \* regularMethods[name]
     "action",      \* key of a vuexData.methodProps mapping (mapActions/mapMutations)
     "state",       \* key of a vuexData.computedProps mapping (mapState/mapGetters)
     "data",        \* dataProperties[name]
     "computed",    \* computedData[name]
     "async",       \* asyncDataMethod.returnProperties
     "prop",        \* key of the props object literal
     "mixin"}       \* listed in a used mixin's config.imports

\* what follows `this.<name>` in the text
Follow ==
    {"ws",      \* white space, then something that is not `=`
     "asg",     \* white space, then `=`
     "semi",    \* ;
     "rp",      \* )
     "dot",     \* .
     "comma",   \* ,
     "rb",      \* ]
     "call",    \* (
     "eol"}     \* end of the line

Ctx == {"code", "str", "cmt"}

\* k: "this"  this.<n>      (not rewritten)
\*    "bare"  <n>
\*    "value" <n>.value
\*    "props" props.<n>
\*    "store" <q>.<n>
Tok(k, n, f, sp, cx) == [k |-> k, n |-> n, f |-> f, sp |-> sp, cx |-> cx, q |-> ""]

Line(toks) == [toks |-> toks, fixme |-> <<>>]

TextOf(pre, lines, post) == [pre |-> pre, lines |-> lines, post |-> post]

NoVuex == [on |-> FALSE, cfg |-> [ns \in {"user", "cart"} |-> ""]]

\* getStoreInstanceName: useUserStore -> userStore; an import name that does
\* not look like use<Name>Store is returned as it is
GetStoreInstanceName(importName) ==
    CASE importName = "useUserStore" -> "userStore"
      [] importName = "useCartStore" -> "cartStore"
      [] importName = "useShopStore" -> "shopStore"
      [] OTHER -> importName

\* options.vuex[namespace]; a null namespace ("") has no entry
StoreConfig(vx, ns) == IF ns \in DOMAIN vx.cfg THEN vx.cfg[ns] ELSE ""

\* the loop over vuexData.methodProps in transformStoreUsageInMethods: the
\* first mapping that has the name as a key and whose namespace is configured
RECURSIVE StoreInstanceFor(_, _, _)
StoreInstanceFor(name, mps, vx) ==
    IF mps = <<>> THEN ""
    ELSE IF /\ name \in DOMAIN Head(mps).mappings
            /\ StoreConfig(vx, Head(mps).namespace) # ""
         THEN GetStoreInstanceName(StoreConfig(vx, Head(mps).namespace))
         ELSE StoreInstanceFor(name, Tail(mps), vx)

\* .replace(/^\s*{\s*/, "").replace(/\s*}\s*$/, "")
StripBraces(b) ==
    [b EXCEPT
       !.pre = IF @ > 0 /\ (b.lines = <<>> \/ b.lines[1].fixme = <<>>)
                 THEN @ - 1 ELSE @,
       !.post = IF @ > 0 THEN @ - 1 ELSE @]

IsMethod(n, c) == "method" \in c.cats[n]

\* isPropProperty: eval of the props text; a throwing eval means "not a prop"
IsPropProperty(n, c) == c.propsOk /\ "prop" \in c.cats[n]

IsVariableDefined(n, c) ==
    \/ "data" \in c.cats[n]
    \/ "computed" \in c.cats[n]
    \/ "state" \in c.cats[n]
    \/ (c.propsOk /\ "prop" \in c.cats[n])
    \/ "method" \in c.cats[n]
    \/ "mixin" \in c.cats[n]

\* /this\.(\w+)[\s;\)]/ matches at this reference
FixmeMatches(t) == t.k = "this" /\ t.f \in {"ws", "asg", "semi", "rp"}

\* the "comment out" pass: per line, the first match of the pattern decides
FixmeLine(l, c) ==
    LET hits == {j \in DOMAIN l.toks : FixmeMatches(l.toks[j])}
    IN  IF hits = {} THEN l
        ELSE LET j == CHOOSE h \in hits : \A g \in hits : h <= g
                 n == l.toks[j].n
             IN  IF IsMethod(n, c) THEN l
                 ELSE IF ~IsVariableDefined(n, c)
                      THEN [l EXCEPT !.fixme = Append(@, n)]
                      ELSE l

FixmePass(b, c) == [b EXCEPT !.lines = [i \in DOMAIN @ |-> FixmeLine(@[i], c)]]

\* if (hasAxios) ... .replace(/this\.(\w+)\s*=/g, "$1.value =")
AxiosTok(t) ==
    IF t.k = "this" /\ t.f = "asg" THEN [t EXCEPT !.k = "value"] ELSE t

AxiosPass(b) ==
    [b EXCEPT !.lines = [i \in DOMAIN @ |->
        [@[i] EXCEPT !.toks = [j \in DOMAIN @ |-> AxiosTok(@[j])]]]]

\* transformStoreUsageInMethods, the this.<name>( part
StoreTok(t, c) ==
    IF t.k = "this" /\ t.f = "call" /\ StoreInstanceFor(t.n, c.methodProps, c.vuex) # ""
    THEN [t EXCEPT !.k = "store", !.q = StoreInstanceFor(t.n, c.methodProps, c.vuex)]
    ELSE t

StorePass(b, c) ==
    [b EXCEPT !.lines = [i \in DOMAIN @ |->
        [@[i] EXCEPT !.toks = [j \in DOMAIN @ |-> StoreTok(@[j], c)]]]]

TransformStoreUsageInMethods(b, c) ==
    IF c.vuex.on THEN StorePass(b, c) ELSE b

\* .replace(/this\.([a-zA-Z_$][a-zA-Z0-9_$]*)\(/g, "$1(")
CallTok(t) ==
    IF t.k = "this" /\ t.f = "call" THEN [t EXCEPT !.k = "bare"] ELSE t

CallPass(b) ==
    [b EXCEPT !.lines = [i \in DOMAIN @ |->
        [@[i] EXCEPT !.toks = [j \in DOMAIN @ |-> CallTok(@[j])]]]]

\* .replace(/\.\.\.(this\.(\w+))/g, "...$2.value")
SpreadTok(t) ==
    IF t.k = "this" /\ t.sp THEN [t EXCEPT !.k = "value"] ELSE t

SpreadPass(b) ==
    [b EXCEPT !.lines = [i \in DOMAIN @ |->
        [@[i] EXCEPT !.toks = [j \in DOMAIN @ |-> SpreadTok(@[j])]]]]

\* the structural pass: member expressions this.<property> of the parsed text
TreeSitterTok(t, c) ==
    IF t.k = "this" /\ t.cx = "code"
    THEN IF IsMethod(t.n, c) THEN [t EXCEPT !.k = "bare"]
         ELSE IF IsPropProperty(t.n, c) THEN [t EXCEPT !.k = "props"]
         ELSE [t EXCEPT !.k = "value"]
    ELSE t

TransformThisReferencesWithTreeSitter(b, c) ==
    [b EXCEPT !.lines = [i \in DOMAIN @ |->
        [@[i] EXCEPT !.toks = [j \in DOMAIN @ |-> TreeSitterTok(@[j], c)]]]]

TransformMethodBody(b, c) ==
    LET b1 == StripBraces(b)
        b2 == FixmePass(b1, c)
        b3 == IF c.hasAxios THEN AxiosPass(b2) ELSE b2
        b4 == IF c.vuex.on THEN TransformStoreUsageInMethods(b3, c) ELSE b3
        b5 == CallPass(b4)
        b6 == SpreadPass(b5)
    IN  TransformThisReferencesWithTreeSitter(b6, c)

\* ---- the inputs ----
CatSets == {cs \in SUBSET Categories : Cardinality(cs) <= MaxCats}

UserVuex == [on |-> TRUE, cfg |-> [ns \in {"user", "cart"} |->
                                     IF ns = "user" THEN "useUserStore" ELSE ""]]

\* name y is a data property in every component; x is the name under study
Components ==
    { [cats |-> [n \in Names |-> IF n = "x" THEN cs ELSE {"data"}],
       hasAxios |-> ax,
       propsOk |-> po,
       vuex |-> vx,
       methodProps |-> IF "action" \in cs
                         THEN <<[namespace |-> "user", mappings |-> [n \in {"x"} |-> "x"]]>>
                         ELSE <<>>] :
        cs \in CatSets, ax \in BOOLEAN, po \in BOOLEAN, vx \in {NoVuex, UserVuex} }

UsefulComponents ==
    { c \in Components :
        /\ ("prop" \notin c.cats["x"] => c.propsOk)
        /\ ("action" \notin c.cats["x"] => c.vuex = UserVuex) }

RefX == { Tok("this", "x", f, sp, cx) : f \in Follow, sp \in BOOLEAN, cx \in Ctx }

FocusLines ==
    { Line(<<t>>) : t \in {r \in RefX : r.sp => r.cx = "code"} }
    \cup { Line(<<Tok("this", "y", "ws", FALSE, "code"), t>>) :
             t \in {r \in RefX : r.sp => r.cx = "code"} }
    \cup { Line(<<t, Tok("this", "y", "dot", FALSE, "code")>>) :
             t \in {r \in RefX : r.sp => r.cx = "code"} }

Bodies ==
    { TextOf(k, <<l>>, k) : l \in FocusLines, k \in 1..MaxNest }
    \cup { TextOf(k, <<l, Line(<<Tok("this", "y", "semi", FALSE, "code")>>)>>, k) :
             l \in FocusLines, k \in 1..MaxNest }

RewriteIdle ==
    /\ pc = "idle" /\ sfc = <<>> /\ log = <<>> /\ output = "" /\ result = <<>>
    /\ ret = NoRet /\ werr = FALSE /\ fmt = "none"

InitBody ==
    /\ bpc = "in"
    /\ comp \in UsefulComponents
    /\ body \in Bodies
    /\ out = <<>>
    /\ out2 = <<>>
    /\ RewriteIdle /\ StoreIdle /\ ImportsIdle /\ BatchIdle /\ ConfiguredIdle /\ EmitIdle /\ CallsIdle /\ TemplateIdle /\ EmitsIdle /\ WatchIdle /\ MethodsIdle /\ PassesIdle /\ HelpersIdle

NoThisLeft(b) ==
    \A i \in DOMAIN b.lines : \A j \in DOMAIN b.lines[i].toks :
        b.lines[i].toks[j].k # "this"

\* transformMethodBody(methodBody, ...)
Rewrite ==
    /\ bpc = "in"
    /\ out' = TransformMethodBody(body, comp)
    /\ bpc' = "out"
    /\ UNCHANGED <<comp, body, out2>>

\* transformMethodBody applied to its own output
Rerun ==
    /\ bpc = "out"
    /\ NoThisLeft(out)
    /\ out2' = TransformMethodBody(out, comp)
    /\ bpc' = "again"
    /\ UNCHANGED <<comp, body, out>>

NextBody ==
    \/ (Rewrite /\ UNCHANGED <<rvars, svars, ivars, cvars, hvars, evars, kvars, tvars, mvars, wvars, dvars, pvars, nvars>>)
    \/ (Rerun /\ UNCHANGED <<rvars, svars, ivars, cvars, hvars, evars, kvars, tvars, mvars, wvars, dvars, pvars, nvars>>)

SpecBody == InitBody /\ [][NextBody]_vars

(***************************************************************************)
(* Properties of transformMethodBody                                       *)
(***************************************************************************)
Rewritten == bpc \in {"out", "again"}

Positions == {<<i, j>> \in (1..2) \X (1..2) :
                 i \in DOMAIN body.lines /\ j \in DOMAIN body.lines[i].toks}

InTok(p) == body.lines[p[1]].toks[p[2]]
OutTok(p) == out.lines[p[1]].toks[p[2]]

Reactive(n) == comp.cats[n] \cap {"data", "computed", "async"} # {}

OnlyReactive(n) ==
    comp.cats[n] # {} /\ comp.cats[n] \subseteq {"data", "computed", "async"}

\* C1: every occurrence of this.<name> in code, for a name that is a data
\* property, a computed property or returned by asyncData (and nothing
\* else), comes out as <name>.value, whatever else the component uses.
C1_Completeness ==
    Rewritten =>
        \A p \in Positions :
            (InTok(p).cx = "code" /\ OnlyReactive(InTok(p).n))
                => OutTok(p).k = "value"

\* C2: transformMethodBody applied to its own output (no this. left in it)
\* returns that output unchanged: no accessor changes and no brace is lost.
C2_Idempotent ==
    bpc = "again" => out2 = out

\* a mapped action/mutation whose namespace has a store instance
StoreBound(n) ==
    "action" \in comp.cats[n] /\ StoreInstanceFor(n, comp.methodProps, comp.vuex) # ""

\* the form the precedence order of the classifier asks for
ExpectedKind(n) ==
    IF "method" \in comp.cats[n] THEN "bare"
    ELSE IF StoreBound(n) THEN "store"
    ELSE IF Reactive(n) THEN "value"
    ELSE IF "prop" \in comp.cats[n] THEN "props"
    ELSE "this"

\* C5: each occurrence of this.<name> in code (read, call, assignment target
\* or spread argument) is rewritten by the first matching rule of
\* method > store binding > data/computed/asyncData > prop > unresolved.
C5_Precedence ==
    Rewritten =>
        \A p \in Positions :
            (/\ InTok(p).cx = "code"
             /\ comp.cats[InTok(p).n] \subseteq
                   {"method", "action", "data", "computed", "async", "prop"}
             /\ comp.cats[InTok(p).n] # {}
             /\ ("action" \in comp.cats[InTok(p).n] => StoreBound(InTok(p).n))
             /\ ("prop" \in comp.cats[InTok(p).n] => comp.propsOk))
                => OutTok(p).k = ExpectedKind(InTok(p).n)

Tracked(n) == comp.cats[n] # {}

Markers(l) == {l.fixme[k] : k \in DOMAIN l.fixme}

\* C6: a line with a this.<name> whose name is in no tracked category gets
\* the FIXME marker for that name, whatever follows the name and wherever it
\* sits on the line; and no name of a tracked category is flagged.
C6_UnresolvedFlagged ==
    Rewritten =>
        /\ \A p \in Positions :
              (InTok(p).cx = "code" /\ ~Tracked(InTok(p).n))
                 => InTok(p).n \in Markers(out.lines[p[1]])
        /\ \A i \in DOMAIN out.lines :
              \A n \in Markers(out.lines[i]) : ~Tracked(n)

AllCode(l) == \A j \in DOMAIN l.toks : l.toks[j].cx = "code"

\* C7: a line flagged for an unresolved reference keeps its statement text,
\* this.<name> included, after the marker.
C7_FlaggedLineKept ==
    Rewritten =>
        \A i \in DOMAIN out.lines :
            (/\ out.lines[i].fixme # <<>>
             /\ \A n \in Markers(out.lines[i]) : ~Tracked(n)
             /\ AllCode(body.lines[i]))
                => out.lines[i].toks = body.lines[i].toks

(***************************************************************************)
(* Properties of rewriteSFC                                                *)
(***************************************************************************)
NoScript == sfc.script \in {"none", "empty"}

\* C8: a component without a script region (or with an empty one) comes back
\* as the input text, exactly; the template rewriting done before the check
\* is discarded.  (An exception of the template rewriter leaves rewriteSFC
\* before the script check is reached.)
C8_NoScriptReturnsInput ==
    (pc = "done" /\ NoScript /\ ret # Thrown("rewriter"))
        => ret = Value(SfcText(sfc))

C8_Witness ==
    /\ pc = "done" /\ NoScript /\ sfc.template /\ sfc.styles > 0
    /\ output = "tpl'" /\ ret.kind = "value"

\* the blocks of the unformatted assembly, in order
IsUnformattedAssembly(text) ==
    LET nT == IF sfc.template THEN 1 ELSE 0
        nI == IF sfc.i18n THEN 1 ELSE 0
    IN  /\ Len(text) = nT + 1 + nI + sfc.styles
        /\ sfc.template => text[1] = Block("template", RewriteTemplate("tpl"), FALSE, "")
        /\ text[nT + 1].tag = "script setup"
        /\ text[nT + 1].content = (IF sfc.blank THEN "" ELSE "setup")
        /\ sfc.i18n => text[nT + 2] = Block("script", "i18n", FALSE, "")
        /\ \A i \in 1..sfc.styles : text[nT + 1 + nI + i] = StyleOf(i)

\* C9: when prettier.format throws, rewriteSFC still returns, and what it
\* returns is the assembled, unformatted text: template, script setup,
\* optional i18n script, styles.
C9_FormatterFailureNotFatal ==
    (pc = "done" /\ fmt = "threw")
        => (ret.kind = "value" /\ IsUnformattedAssembly(ret.val))

C9_Witness ==
    /\ pc = "done" /\ fmt = "threw" /\ ret.kind = "value"
    /\ sfc.template /\ sfc.i18n /\ sfc.styles = MaxStyles

IsPrefix(s, t) == Len(s) <= Len(t) /\ \A i \in 1..Len(s) : s[i] = t[i]

FreeCount == Cardinality({i \in DOMAIN log : log[i] = "free"})

\* C10: the template rewriter is acquired, written, ended and freed in that
\* order (a throwing write() skips end()), and once rewriteSFC is past the
\* template stage -- on every exit path -- free() has been called exactly
\* once if there is a template, and never otherwise.
C10_RewriterFreedOnce ==
    /\ \/ IsPrefix(log, <<"new", "write", "end", "free">>)
       \/ log = <<"new", "write", "free">>
    /\ pc \in {"script", "transform", "format", "done"}
          => FreeCount = (IF sfc.template THEN 1 ELSE 0)

C10_Witness ==
    /\ pc = "done" /\ ret = Thrown("rewriter")
    /\ log = <<"new", "write", "free">>

(***************************************************************************)
(* Vuex map helpers: parseMapFunction and the store pass over method calls *)
(***************************************************************************)
Namespaces == {"user", "cart"}

Locals == {"fetchUser", "checkoutEvent"}

\* a mapping value: 'user/fetchUser' is [ns |-> "user", ...], 'fetchUser' has ns ""
Remote(ns, name) == [ns |-> ns, name |-> name]

\* use<Capitalized namespace>Store
DefaultImportName(ns) == IF ns = "user" THEN "useUserStore" ELSE "useCartStore"

\* the two-argument forms, mapActions('user', ['fetchUser']) and
\* mapActions('user', { fetchUser: 'fetchUser' }): keys and plain values
NamespacedCalls ==
    { [args |-> 2, namespace |-> ns,
       pairs |-> ps] :
         ns \in Namespaces,
         ps \in { <<[key |-> l, value |-> Remote("", l)]>> : l \in Locals }
                \cup { << [key |-> "fetchUser", value |-> Remote("", "fetchUser")],
                          [key |-> "checkoutEvent", value |-> Remote("", "checkoutEvent")] >> } }

\* the one-argument object form, in source order of its pairs
ObjectPairs ==
    { <<[key |-> l, value |-> Remote(ns, l)]>> : l \in Locals, ns \in Namespaces \cup {""} }
    \cup
    { << [key |-> ls[1], value |-> Remote(n1, ls[1])],
         [key |-> ls[2], value |-> Remote(n2, ls[2])] >> :
         ls \in {q \in Locals \X Locals : q[1] # q[2]},
         n1 \in Namespaces \cup {""}, n2 \in Namespaces \cup {""} }

ObjectCalls == { [args |-> 1, namespace |-> "", pairs |-> ps] : ps \in ObjectPairs }

MapCalls == NamespacedCalls \cup ObjectCalls

\* parseObjectMappings / parseArrayMappings: the pairs as an object
MappingsOf(pairs) ==
    [l \in {pairs[i].key : i \in DOMAIN pairs} |->
        pairs[CHOOSE i \in DOMAIN pairs :
                /\ pairs[i].key = l
                /\ \A j \in DOMAIN pairs : pairs[j].key = l => j <= i].value ]

\* Object.values(mappings).forEach(...): every value with a configured
\* namespace before the slash overwrites `namespace`, so the last one stays
RECURSIVE InferNamespace(_, _, _)
InferNamespace(pairs, vx, acc) ==
    IF pairs = <<>> THEN acc
    ELSE LET e == Head(pairs).value.ns
         IN  InferNamespace(Tail(pairs), vx,
                 IF e # "" /\ vx.on /\ vx.cfg[e] # "" THEN e ELSE acc)

NamespaceOf(call, vx) ==
    IF call.args = 2 THEN call.namespace
    ELSE InferNamespace(call.pairs, vx, "")

EmbeddedNamespaces(call) ==
    {call.pairs[i].value.ns : i \in DOMAIN call.pairs} \ {""}

\* options.vuex after the call: a default entry for every embedded namespace
\* that has none
RegisterStores(vx, call) ==
    IF EmbeddedNamespaces(call) = {} THEN vx
    ELSE [on |-> TRUE,
          cfg |-> [ns \in Namespaces |->
                     IF ns \in EmbeddedNamespaces(call) /\ vx.cfg[ns] = ""
                     THEN DefaultImportName(ns) ELSE vx.cfg[ns]]]

UsedStoresOf(call, vx) ==
    (IF NamespaceOf(call, vx) # "" /\ vx.on /\ vx.cfg[NamespaceOf(call, vx)] # ""
       THEN {NamespaceOf(call, vx)} ELSE {})
    \cup EmbeddedNamespaces(call)

\* options.vuex as the caller passes it: absent, or any subset of the stores
VuexOptions ==
    {NoVuex} \cup
    { [on |-> TRUE, cfg |-> [ns \in Namespaces |->
                               IF ns \in cs THEN DefaultImportName(ns) ELSE ""]] :
        cs \in SUBSET Namespaces }

\* a cart namespace configured with a composable of another name
CustomVuexOptions ==
    { [on |-> TRUE, cfg |-> [ns \in Namespaces |->
                               IF ns = "cart" THEN "useShopStore"
                               ELSE IF ns \in cs THEN DefaultImportName(ns) ELSE ""]] :
        cs \in SUBSET {"user"} }

InitStore ==
    /\ spc = "parse"
    /\ vuex \in VuexOptions \cup CustomVuexOptions
    /\ methodProps = <<>>
    /\ usedStores = {}
    /\ callOut = <<>>
    /\ vuex0 = vuex
    /\ RewriteIdle /\ BodyIdle /\ ImportsIdle /\ BatchIdle /\ EmitIdle /\ CallsIdle /\ TemplateIdle /\ EmitsIdle /\ WatchIdle /\ MethodsIdle /\ PassesIdle /\ HelpersIdle

\* parseMapFunction for one ...mapActions(...) / ...mapMutations(...) spread
\* of the methods object
ParseMapFunction(call) ==
    /\ spc = "parse"
    /\ Len(methodProps) < MaxCalls
    /\ methodProps' = Append(methodProps,
           [namespace |-> NamespaceOf(call, vuex),
            mappings |-> MappingsOf(call.pairs)])
    /\ usedStores' = usedStores \cup UsedStoresOf(call, vuex)
    /\ vuex' = RegisterStores(vuex, call)
    /\ UNCHANGED <<spc, callOut>>

\* the direct-store discovery writing a default entry for every namespace it
\* finds, configured or not
RegisterDirectOverwriting(vx, found) ==
    [on |-> TRUE,
     cfg |-> [ns \in Namespaces |->
                IF ns \in found THEN DefaultImportName(ns) ELSE vx.cfg[ns]]]

\* options.vuex after the direct-store discovery of rewriteSFC: a default
\* entry for every namespace of a $store.commit('ns/..') / $store.dispatch
\* string that has none
RegisterDirect(vx, found) ==
    [on |-> TRUE,
     cfg |-> [ns \in Namespaces |->
                IF ns \in found /\ vx.cfg[ns] = ""
                THEN DefaultImportName(ns) ELSE vx.cfg[ns]]]

\* rewriteSFC after extractVuexData: `if (hasDirectStoreUsage) { ... }`
DiscoverDirectStores(found) ==
    /\ spc = "parse"
    /\ vuex' = RegisterDirect(vuex, found)
    /\ spc' = "direct"
    /\ UNCHANGED <<methodProps, usedStores, callOut>>

\* the component model a hook body is rewritten against
StoreComponent ==
    [cats |-> [l \in Locals |-> {}],
     hasAxios |-> FALSE,
     propsOk |-> TRUE,
     vuex |-> vuex,
     methodProps |-> methodProps]

\* a lifecycle hook body `{ this.<local>() }`: transformStoreUsageInMethods
\* when options.vuex is there, then transformMethodBody
TransformCalls ==
    /\ spc \in {"parse", "direct"}
    /\ methodProps # <<>>
    /\ callOut' = [l \in Locals |->
          TransformMethodBody(
              TransformStoreUsageInMethods(
                  TextOf(1, <<Line(<<Tok("this", l, "call", FALSE, "code")>>)>>, 1),
                  StoreComponent),
              StoreComponent).lines[1].toks[1]]
    /\ spc' = "done"
    /\ UNCHANGED <<vuex, methodProps, usedStores>>

NextStore ==
    \/ \E call \in MapCalls :
          ParseMapFunction(call) /\ UNCHANGED <<rvars, bvars, ivars, cvars, hvars, evars, kvars, tvars, mvars, wvars, dvars, pvars, nvars>>
    \/ \E found \in SUBSET Namespaces \ {{}} :
          DiscoverDirectStores(found) /\ UNCHANGED <<rvars, bvars, ivars, cvars, hvars, evars, kvars, tvars, mvars, wvars, dvars, pvars, nvars>>
    \/ (TransformCalls /\ UNCHANGED <<rvars, bvars, ivars, cvars, hvars, evars, kvars, tvars, mvars, wvars, dvars, pvars, nvars>>)

SpecStore == InitStore /\ [][NextStore]_vars

\* the namespaces a local name is mapped from, as the source text says it
Origins(l) ==
    { IF methodProps[i].mappings[l].ns # ""
        THEN methodProps[i].mappings[l].ns
        ELSE methodProps[i].namespace :
      i \in {j \in DOMAIN methodProps : l \in DOMAIN methodProps[j].mappings} }

MappedNamespaces == UNION {Origins(l) : l \in Locals} \ {""}

\* C4: with actions/mutations of two namespaces mapped, a call this.<local>(
\* of a name mapped from namespace A only is never rewritten to the store
\* instance of another namespace: when the call is qualified with a store
\* instance at all, it is A's
C4_NamespaceIsolation ==
    (spc = "done" /\ Cardinality(MappedNamespaces) = 2) =>
        \A l \in Locals : \A a \in Namespaces :
            (Origins(l) = {a} /\ callOut[l].k = "store") =>
                callOut[l].q = GetStoreInstanceName(vuex.cfg[a])

(***************************************************************************)
(* The import section of transformToCompositionAPI                         *)
(***************************************************************************)
WatchNames == {"foo", "bar"}

\* how a key of the watch object is written
WatchForms ==
    {"none",        \* no such watcher
     "function",    \* foo(newVal) { ... }  or  foo: function () { ... }
     "object"}      \* foo: { handler() { ... }, deep: true }

\* i18n expressions a component text can hold
I18nForms == {"$t(", "$i18n.locale", "$i18n.localeProperties"}

\* how a symbol of a mixin is used by the component
MixinUses ==
    {"none",        \* not at all
     "template",    \* in a template expression
     "call",        \* this.<symbol>( in a method or computed body
     "property"}    \* this.<symbol> without a call

\* the mixin import: absent, present without an options.mixins entry, present
\* with one and listed in the mixins array
MixinKinds == {"none", "untracked", "tracked"}

\* the map helper call of the component, if any: one key
ImportCalls ==
    {c \in MapCalls : Len(c.pairs) = 1 /\ c.pairs[1].key = "fetchUser"}

Sources ==
    [ watch  : [WatchNames -> WatchForms],
      route  : BOOLEAN,           \* the text refers to $route
      router : BOOLEAN,           \* the text refers to $router
      i18n   : SUBSET I18nForms,
      mixin  : MixinKinds,
      mixinUse : MixinUses,
      calls  : {<<>>} \cup {<<c>> : c \in ImportCalls},
      vuex   : VuexOptions ]

\* content.includes("$route") is true of a text that holds "$router"
DetectRouterUsage(src) ==
    [hasRoute |-> src.route \/ src.router,
     hasRouter |-> src.router,
     hasRouterUsage |-> src.route \/ src.router]

\* extractI18nUsage: expr.includes("$i18n.locale") is true of a text that
\* holds "$i18n.localeProperties"
ExtractI18nUsage(forms) ==
    (IF "$t(" \in forms THEN {"t"} ELSE {})
    \cup (IF forms \cap {"$i18n.locale", "$i18n.localeProperties"} # {}
            THEN {"locale"} ELSE {})
    \cup (IF "$i18n.localeProperties" \in forms THEN {"localeProperties"} ELSE {})

\* extractWatchers: name -> type, for the keys that are there
ExtractWatchers(src) ==
    [w \in {n \in WatchNames : src.watch[n] # "none"} |-> src.watch[w]]

\* extractMixinData: usedMixins holds the mixins that have a configuration
ExtractMixinData(src) == IF src.mixin = "tracked" THEN {"useMixin"} ELSE {}

\* extractVuexData over the map helper calls: usedStores and options.vuex
RECURSIVE ExtractVuexData(_, _, _)
ExtractVuexData(calls, vx, used) ==
    IF calls = <<>> THEN [usedStores |-> used, vuex |-> vx]
    ELSE ExtractVuexData(Tail(calls), RegisterStores(vx, Head(calls)),
                         used \cup UsedStoresOf(Head(calls), vx))

InitImports ==
    /\ ipc = "source"
    /\ cm \in {[src |-> s, model |-> <<>>] : s \in Sources}
    /\ imports = {}
    /\ emitted = {}
    /\ RewriteIdle /\ BodyIdle /\ StoreIdle /\ BatchIdle /\ ConfiguredIdle /\ EmitIdle /\ CallsIdle /\ TemplateIdle /\ EmitsIdle /\ WatchIdle /\ MethodsIdle /\ PassesIdle /\ HelpersIdle

\* the extraction phase of rewriteSFC: the Component Model
Extract ==
    /\ ipc = "source"
    /\ cm' = [cm EXCEPT !.model =
          [watchData |-> ExtractWatchers(cm.src),
           routerData |-> DetectRouterUsage(cm.src),
           i18nMethods |-> ExtractI18nUsage(cm.src.i18n),
           usedMixins |-> ExtractMixinData(cm.src),
           vuex |-> ExtractVuexData(cm.src.calls, cm.src.vuex, {}).vuex,
           usedStores |-> ExtractVuexData(cm.src.calls, cm.src.vuex, {}).usedStores]]
    /\ ipc' = "model"
    /\ UNCHANGED <<imports, emitted>>

StandardI18nMethods == {"t", "n", "d", "locale"}

CustomI18nMethods == {"localeProperties", "localePath", "localeRoute"}

\* the import statements of the emitted script, by imported name
ImportsOf(m) ==
    (IF DOMAIN m.watchData # {} THEN {"watch"} ELSE {})
    \cup (IF m.i18nMethods \cap StandardI18nMethods # {} THEN {"useI18n"} ELSE {})
    \cup (IF m.i18nMethods \cap CustomI18nMethods # {} THEN {"useI18nUtils"} ELSE {})
    \cup (IF m.routerData.hasRouterUsage /\ m.routerData.hasRoute
            THEN {"useRoute"} ELSE {})
    \cup (IF m.routerData.hasRouterUsage /\ m.routerData.hasRouter
            THEN {"useRouter"} ELSE {})
    \cup {m.vuex.cfg[ns] : ns \in {u \in m.usedStores : m.vuex.on /\ m.vuex.cfg[u] # ""}}
    \cup m.usedMixins

Construct(c, of) == [c |-> c, of |-> of]

\* the setup statements of the emitted script that use an imported name
SetupOf(m, src) ==
    {Construct("useI18n", x) : x \in m.i18nMethods \cap StandardI18nMethods}
    \cup {Construct("useI18nUtils", x) : x \in m.i18nMethods \cap CustomI18nMethods}
    \cup {Construct(x, "useMixin") :
            x \in IF src.mixinUse \in {"template", "call"} THEN m.usedMixins ELSE {}}
    \cup (IF m.routerData.hasRouterUsage /\ m.routerData.hasRoute
            THEN {Construct("useRoute", "route")} ELSE {})
    \cup (IF m.routerData.hasRouterUsage /\ m.routerData.hasRouter
            THEN {Construct("useRouter", "router")} ELSE {})
    \cup {Construct(m.vuex.cfg[ns], GetStoreInstanceName(m.vuex.cfg[ns])) :
            ns \in {u \in m.usedStores : m.vuex.on /\ m.vuex.cfg[u] # ""}}
    \cup {Construct("watch", w) :
            w \in {n \in DOMAIN m.watchData : m.watchData[n] = "function"}}

TransformToCompositionAPI ==
    /\ ipc = "model"
    /\ imports' = ImportsOf(cm.model)
    /\ emitted' = SetupOf(cm.model, cm.src)
    /\ ipc' = "emitted"
    /\ UNCHANGED cm

NextImports ==
    \/ (Extract /\ UNCHANGED <<rvars, bvars, svars, cvars, hvars, evars, kvars, tvars, mvars, wvars, dvars, pvars, nvars>>)
    \/ (TransformToCompositionAPI /\ UNCHANGED <<rvars, bvars, svars, cvars, hvars, evars, kvars, tvars, mvars, wvars, dvars, pvars, nvars>>)

SpecImports == InitImports /\ [][NextImports]_vars

\* the namespaces the map helper calls of the component name
ReferencedNamespaces ==
    UNION { {c.namespace} \cup EmbeddedNamespaces(c) :
            c \in {cm.src.calls[i] : i \in DOMAIN cm.src.calls} } \ {""}

\* C3: every import of the emitted script is required by the component:
\* watch by an emitted watch(...) call, useRoute by a reference to $route
\* itself, useI18n by a use of t/n/d/locale, a store composable by a reference
\* to its namespace, a mixin composable by a destructuring of its symbols
C3_NoOrphanImports ==
    ipc = "emitted" =>
        /\ "watch" \in imports => \E e \in emitted : e.c = "watch"
        /\ "useRoute" \in imports => cm.src.route
        /\ "useI18n" \in imports => cm.src.i18n \cap {"$t(", "$i18n.locale"} # {}
        /\ \A ns \in Namespaces :
              (cm.model.vuex.on /\ cm.model.vuex.cfg[ns] \in imports) =>
                  ns \in ReferencedNamespaces
        /\ "useMixin" \in imports => \E e \in emitted : e.c = "useMixin"

(***************************************************************************)
(* The CLI: processPath over a directory, transformFile per file           *)
(***************************************************************************)
\* where the handling of a file fails, if it does
Faults ==
    {"none",
     "read",        \* readFile rejects
     "transform",   \* rewriteSFC rejects
     "write"}       \* mkdir or writeFile rejects

\* the map helper call of a component, all of them followed by a hook that
\* calls this.fetchUser()
FileCalls ==
    {c \in ImportCalls : c.namespace = "cart" \/ EmbeddedNamespaces(c) # {}}

Files == [fault : Faults, call : FileCalls]

RECURSIVE SeqsUpTo(_, _)
SeqsUpTo(S, n) ==
    IF n = 0 THEN {<<>>}
    ELSE SeqsUpTo(S, n - 1)
         \cup {Append(q, x) : q \in {r \in SeqsUpTo(S, n - 1) : Len(r) = n - 1}, x \in S}

\* loadConfig: null without --config, the parsed JSON object otherwise
Configs ==
    {[loaded |-> FALSE, vuex |-> NoVuex]}
    \cup {[loaded |-> TRUE, vuex |-> vx] : vx \in VuexOptions}

\* what rewriteSFC emits for a file against options.vuex as it finds it: the
\* store composables imported and the rewritten this.fetchUser( call
FileOutput(f, vx) ==
    LET after == RegisterStores(vx, f.call)
        used == UsedStoresOf(f.call, vx)
        mps == <<[namespace |-> NamespaceOf(f.call, vx),
                  mappings |-> MappingsOf(f.call.pairs)]>>
    IN  [stores |-> {after.cfg[ns] : ns \in {u \in used : after.on /\ after.cfg[u] # ""}},
         call |-> IF after.on THEN StoreInstanceFor("fetchUser", mps, after) ELSE ""]

\* rewriteSFC(content, config || {}): the options object of a file
OptionsOf(cfg) == IF cfg.loaded THEN cfg.vuex ELSE NoVuex

\* the configuration object after extractVuexData ran on a file
ConfigAfter(cfg, f) ==
    IF cfg.loaded THEN [cfg EXCEPT !.vuex = RegisterStores(@, f.call)] ELSE cfg

NoOutput == [stores |-> {}, call |-> ""]

InitBatch ==
    /\ cpc = "loop"
    /\ queue \in SeqsUpTo(Files, MaxFiles) \ {<<>>}
    /\ nextFile = 1
    /\ config \in Configs
    /\ config0 = config
    /\ outputs = <<>>
    /\ successCount = 0
    /\ RewriteIdle /\ BodyIdle /\ StoreIdle /\ ImportsIdle /\ ConfiguredIdle /\ EmitIdle /\ CallsIdle /\ TemplateIdle /\ EmitsIdle /\ WatchIdle /\ MethodsIdle /\ PassesIdle /\ HelpersIdle

\* one iteration of the for loop, with the exception escaping transformFile
TransformFileNoCatch ==
    /\ cpc = "loop"
    /\ nextFile <= Len(queue)
    /\ LET f == queue[nextFile]
       IN  IF f.fault = "none"
           THEN /\ outputs' = Append(outputs,
                       [ok |-> TRUE, out |-> FileOutput(f, OptionsOf(config))])
                /\ config' = ConfigAfter(config, f)
                /\ successCount' = successCount + 1
                /\ nextFile' = nextFile + 1
                /\ cpc' = cpc
           ELSE /\ cpc' = "done"
                /\ successCount' = 0
                /\ UNCHANGED <<outputs, config, nextFile>>
    /\ UNCHANGED <<queue, config0>>

\* one iteration of the for loop of processPath: transformFile(vueFile,
\* outputFile, config), then `if (success) successCount++`
TransformFile ==
    /\ cpc = "loop"
    /\ nextFile <= Len(queue)
    /\ LET f == queue[nextFile]
       IN  CASE f.fault = "none" ->
                  /\ outputs' = Append(outputs,
                         [ok |-> TRUE, out |-> FileOutput(f, OptionsOf(config))])
                  /\ config' = ConfigAfter(config, f)
                  /\ successCount' = successCount + 1
             [] f.fault = "read" ->
                  /\ outputs' = Append(outputs, [ok |-> FALSE, out |-> NoOutput])
                  /\ UNCHANGED <<config, successCount>>
             [] f.fault = "transform" ->
                  \* rewriteSFC may reject before or after the extraction
                  /\ outputs' = Append(outputs, [ok |-> FALSE, out |-> NoOutput])
                  /\ config' \in {config, ConfigAfter(config, f)}
                  /\ UNCHANGED successCount
             [] f.fault = "write" ->
                  /\ outputs' = Append(outputs, [ok |-> FALSE, out |-> NoOutput])
                  /\ config' = ConfigAfter(config, f)
                  /\ UNCHANGED successCount
    /\ nextFile' = nextFile + 1
    /\ UNCHANGED <<cpc, queue, config0>>

\* after the loop: the summary line and `return successCount`
Summary ==
    /\ cpc = "loop"
    /\ nextFile > Len(queue)
    /\ cpc' = "done"
    /\ UNCHANGED <<queue, nextFile, config, config0, outputs, successCount>>

NextBatch ==
    \/ (TransformFile /\ UNCHANGED <<rvars, bvars, svars, ivars, hvars, evars, kvars, tvars, mvars, wvars, dvars, pvars, nvars>>)
    \/ (Summary /\ UNCHANGED <<rvars, bvars, svars, ivars, hvars, evars, kvars, tvars, mvars, wvars, dvars, pvars, nvars>>)

SpecBatch == InitBatch /\ [][NextBatch]_vars

\* C11: a failure while reading, transforming or writing one file stays with
\* that file: when the run ends every file of the list has been handled, the
\* files without a failure succeeded, and the reported count is their number
C11_FailureLocal ==
    cpc = "done" =>
        /\ Len(outputs) = Len(queue)
        /\ \A i \in DOMAIN queue : outputs[i].ok <=> queue[i].fault = "none"
        /\ successCount = Cardinality({i \in DOMAIN queue : queue[i].fault = "none"})

C11_Witness ==
    /\ cpc = "done"
    /\ \E i \in DOMAIN queue : \E j \in DOMAIN queue :
          i < j /\ queue[i].fault # "none" /\ outputs[j].ok
    /\ successCount >= 1

\* C12: the output written for a file in a batch is the output of processing
\* that file alone with the configuration as it was loaded
C12_StatelessPerFile ==
    \A i \in DOMAIN outputs :
        outputs[i].ok => outputs[i].out = FileOutput(queue[i], OptionsOf(config0))

\* the namespaces met before the slash of a mapping value of a parsed call
Discovered ==
    UNION { {methodProps[i].mappings[l].ns : l \in DOMAIN methodProps[i].mappings} :
            i \in DOMAIN methodProps } \ {""}

Stmt(sec, kind, name, parts) ==
    [sec |-> sec, kind |-> kind, name |-> name, parts |-> parts]

Range(q) == {q[i] : i \in DOMAIN q}

\* the sequences over S without repetition, up to length n
RECURSIVE DistinctSeqs(_, _)
DistinctSeqs(S, n) ==
    IF n = 0 THEN {<<>>}
    ELSE LET shorter == DistinctSeqs(S, n - 1)
         IN  shorter \cup
             UNION { {Append(q, x) : x \in S \ Range(q)} :
                     q \in {r \in shorter : Len(r) = n - 1} }

NoRepeat(q) == \A i \in DOMAIN q : \A j \in DOMAIN q : q[i] = q[j] => i = j

\* ---- section 7: lifecycle hooks ----
\* the lifecycle methods extractLifecycleMethods keeps (isLifecycleMethod)
HookNames ==
    {"created", "mounted", "beforeMount",
     "beforeDestroy", "beforeUnmount", "destroyed", "unmounted"}

\* lifecycleMapping; "" for a name it does not have
VueHookName(h) ==
    CASE h = "mounted" -> "onMounted"
      [] h \in {"beforeUnmount", "beforeDestroy"} -> "onBeforeUnmount"
      [] h \in {"unmounted", "destroyed"} -> "onUnmounted"
      [] OTHER -> ""

\* the registration emitted when the loop over lifecycleMethods is at h
HookStmt(h, hooks) ==
    CASE h = "created" -> <<>>     \* handled before the loop
      [] VueHookName(h) = "" -> <<>>
      [] h = "beforeDestroy" ->
           IF "beforeUnmount" \in Range(hooks) THEN <<>>
           ELSE <<Stmt("hooks", VueHookName(h), "", <<h>>)>>
      [] h = "beforeUnmount" ->
           \* beforeDestroyContent is computed and left out of the text
           <<Stmt("hooks", VueHookName(h), "", <<h>>)>>
      [] h = "destroyed" ->
           IF "unmounted" \in Range(hooks) THEN <<>>
           ELSE <<Stmt("hooks", VueHookName(h), "", <<h>>)>>
      [] h = "unmounted" ->
           IF "beforeDestroy" \in Range(hooks)
           THEN <<Stmt("hooks", VueHookName(h), "", <<h, "beforeDestroy">>)>>
           ELSE <<Stmt("hooks", VueHookName(h), "", <<h>>)>>
      [] OTHER -> <<Stmt("hooks", VueHookName(h), "", <<h>>)>>

RECURSIVE HookLoop(_, _)
HookLoop(rest, hooks) ==
    IF rest = <<>> THEN <<>>
    ELSE HookStmt(Head(rest), hooks) \o HookLoop(Tail(rest), hooks)

\* created() goes first, unwrapped; then one pass over the methods in
\* source order
HooksSection(m) ==
    (IF "created" \in Range(m.hooks)
       THEN <<Stmt("hooks", "inline", "", <<"created">>)>> ELSE <<>>)
    \o HookLoop(m.hooks, m.hooks)

\* ---- section 3: data refs; section 5: asyncData ----
DataNames == {"title", "links"}

\* a member of a returned object literal: `title: data.title` is a pair,
\* `links` a shorthand property
ReturnProp(name, form) == [name |-> name, form |-> form]

ReturnObjects ==
    { <<ReturnProp(n, f)>> : n \in DataNames, f \in {"pair", "shorthand"} }
    \cup { <<ReturnProp(q[1], f1), ReturnProp(q[2], f2)>> :
             q \in {r \in DataNames \X DataNames : r[1] # r[2]},
             f1 \in {"pair", "shorthand"}, f2 \in {"pair", "shorthand"} }

\* the keys of one returned object that extractReturnProperties pushes
RECURSIVE PairKeys(_)
PairKeys(obj) ==
    IF obj = <<>> THEN <<>>
    ELSE (IF Head(obj).form = "pair" THEN <<Head(obj).name>> ELSE <<>>)
         \o PairKeys(Tail(obj))

\* extractReturnProperties: every return statement under the body, in order
RECURSIVE ExtractReturnProperties(_)
ExtractReturnProperties(returns) ==
    IF returns = <<>> THEN <<>>
    ELSE PairKeys(Head(returns)) \o ExtractReturnProperties(Tail(returns))

\* dataProperties as refs, skipping the names asyncData returns
RECURSIVE DataRefs(_, _)
DataRefs(keys, asyncDataProps) ==
    IF keys = <<>> THEN <<>>
    ELSE (IF Head(keys) \in asyncDataProps THEN <<>>
          ELSE <<Stmt("state", "ref", Head(keys), <<"initializer">>)>>)
         \o DataRefs(Tail(keys), asyncDataProps)

DataSection(m) ==
    DataRefs(m.data,
             IF m.asyncData.present
               THEN Range(ExtractReturnProperties(m.asyncData.returns)) ELSE {})

\* the useAsyncData call, then `const <prop> = ref(data.<prop>)` per entry
\* of returnProperties
AsyncDataSection(m) ==
    IF m.asyncData.present
    THEN <<Stmt("asyncData", "useAsyncData", "data", <<"asyncData">>)>>
         \o [i \in DOMAIN ExtractReturnProperties(m.asyncData.returns) |->
               Stmt("asyncData", "ref", ExtractReturnProperties(m.asyncData.returns)[i],
                    <<"data">>)]
    ELSE <<>>

\* ---- section 4: computed properties from the vuex map helpers ----
\* remote names of getters and state entries
RemoteNames == {"getUser", "userID", "target"}

\* name.startsWith("get")
StartsWithGet(name) == name = "getUser"

\* a map helper call of the computed object: ...mapGetters('user', {...}),
\* ...mapGetters({ user: 'user/getUser' }), ...mapState('user', {...}), ...
ComputedCalls ==
    { [type |-> t, args |-> 2, namespace |-> ns,
       pairs |-> <<[key |-> "mapped", value |-> Remote("", n)]>>] :
        t \in {"mapState", "mapGetters"}, ns \in Namespaces, n \in RemoteNames }
    \cup
    { [type |-> t, args |-> 1, namespace |-> "",
       pairs |-> <<[key |-> "mapped", value |-> Remote(ns, n)]>>] :
        t \in {"mapState", "mapGetters"}, ns \in Namespaces, n \in RemoteNames }

\* every mapped getter taken to be a function, whatever its name
FunctionUsageAlways(call) ==
    [l \in DOMAIN MappingsOf(call.pairs) |-> call.type = "mapGetters"]

\* parseMapFunction for a computed map call: functionUsage per local name
FunctionUsage(call) ==
    [l \in DOMAIN MappingsOf(call.pairs) |->
        call.type = "mapGetters" /\ StartsWithGet(MappingsOf(call.pairs)[l].name)]

\* one `const <local> = computed(() => <instance>.<path>[()])` per mapping
\* whose namespace has a store configuration
VuexComputedStmts(call, vx, usage) ==
    LET ns == IF call.pairs[1].value.ns # "" THEN call.pairs[1].value.ns
              ELSE NamespaceOf(call, vx)
        after == RegisterStores(vx, call)
    IN  IF ns # "" /\ after.on /\ after.cfg[ns] # ""
        THEN <<Stmt("computed",
                    IF call.type = "mapGetters" /\ usage["mapped"]
                      THEN "call" ELSE "accessor",
                    "mapped",
                    <<GetStoreInstanceName(after.cfg[ns]), call.pairs[1].value.name>>)>>
        ELSE <<>>

VuexComputedSection(m) ==
    IF m.vuexComputed = <<>> THEN <<>>
    ELSE VuexComputedStmts(m.vuexComputed[1], m.vuex, FunctionUsage(m.vuexComputed[1]))

\* ---- section 2: mixin destructuring ----
\* where the component uses the symbol of its mixin
MixinPlaces ==
    {"template",        \* {{ greet }} / @click="greet"
     "methodCall",      \* this.greet( in a method
     "methodProperty",  \* this.greet without a call, in a method
     "computedCall",    \* this.greet( in a computed property
     "watcherCall",     \* this.greet( in a watcher
     "hookCall"}        \* this.greet( in a lifecycle hook

\* allUsedImports: the template variables, and `this.<symbol>(` in the
\* regular methods and the computed properties
UsedMixinImports(uses) ==
    IF uses \cap {"template", "methodCall", "computedCall"} # {} THEN {"greet"} ELSE {}

MixinSection(m) ==
    IF m.mixin.tracked /\ UsedMixinImports(m.mixin.uses) # {}
    THEN <<Stmt("uses", "destructure", "useGreeting", <<"greet">>)>>
    ELSE <<>>

\* ---- the other sections ----
Flags ==
    {"axios", "props", "emits", "refs", "computed", "head", "methods", "fetch",
     "watch"}

If(cond, stmts) == IF cond THEN stmts ELSE <<>>

\* section 1: the import statements
ImportsSection(m) ==
    If(m.data # <<>> \/ "computed" \in m.flags \/ m.vuexComputed # <<>>
         \/ "refs" \in m.flags \/ "watch" \in m.flags
         \/ \E i \in DOMAIN m.hooks : VueHookName(m.hooks[i]) # "",
       <<Stmt("imports", "import", "vue", <<>>)>>)
    \o If("head" \in m.flags, <<Stmt("imports", "import", "useHead", <<>>)>>)
    \o If(m.asyncData.present, <<Stmt("imports", "import", "useAsyncData", <<>>)>>)
    \o If("axios" \in m.flags, <<Stmt("imports", "import", "useHttp", <<>>)>>)
    \o If(m.mixin.tracked, <<Stmt("imports", "import", "useGreeting", <<>>)>>)

\* section 2: composables
UsesSection(m) ==
    MixinSection(m)
    \o If("axios" \in m.flags, <<Stmt("uses", "const", "http", <<>>)>>)

\* section 3: props, emits, data refs, template refs
StateSection(m) ==
    If("props" \in m.flags, <<Stmt("state", "defineProps", "props", <<>>)>>)
    \o If("emits" \in m.flags, <<Stmt("state", "defineEmits", "emit", <<>>)>>)
    \o DataSection(m)
    \o If("refs" \in m.flags, <<Stmt("state", "useTemplateRef", "inputRef", <<>>)>>)

\* section 4: computed properties
ComputedSection(m) ==
    VuexComputedSection(m)
    \o If("computed" \in m.flags, <<Stmt("computed", "computed", "total", <<>>)>>)

\* section 5: asyncData, head, methods, fetch
MethodsSection(m) ==
    AsyncDataSection(m)
    \o If("head" \in m.flags, <<Stmt("head", "useHead", "", <<>>)>>)
    \o If("methods" \in m.flags, <<Stmt("methods", "const", "submit", <<>>)>>)
    \o If("fetch" \in m.flags, <<Stmt("fetch", "const", "fetch", <<>>)>>)

\* section 6: watchers
WatchersSection(m) ==
    If("watch" \in m.flags, <<Stmt("watchers", "watch", "title", <<>>)>>)

\* section 8: the fetch execution
FetchCallSection(m) ==
    If("fetch" \in m.flags, <<Stmt("fetchCall", "call", "fetch", <<>>)>>)

\* the result of transformToCompositionAPI with the watchers written right
\* after the data refs
EmitScriptWatchersEarly(m) ==
    ImportsSection(m) \o UsesSection(m) \o StateSection(m) \o WatchersSection(m)
    \o ComputedSection(m) \o MethodsSection(m)
    \o HooksSection(m) \o FetchCallSection(m)

\* the result of transformToCompositionAPI, statement by statement
EmitScript(m) ==
    ImportsSection(m) \o UsesSection(m) \o StateSection(m) \o ComputedSection(m)
    \o MethodsSection(m) \o WatchersSection(m)
    \o HooksSection(m) \o FetchCallSection(m)

\* ---- the components ----
NoAsyncData == [present |-> FALSE, returns |-> <<>>]

BaseModel ==
    [hooks |-> <<>>, data |-> <<>>, asyncData |-> NoAsyncData, flags |-> {},
     vuexComputed |-> <<>>, vuex |-> NoVuex,
     mixin |-> [tracked |-> FALSE, uses |-> {}]]

HookModels ==
    {[BaseModel EXCEPT !.hooks = h] : h \in DistinctSeqs(HookNames, MaxHooks) \ {<<>>}}

AsyncModels ==
    {[BaseModel EXCEPT !.data = d, !.asyncData = [present |-> TRUE, returns |-> r]] :
        d \in DistinctSeqs(DataNames, 2),
        r \in SeqsUpTo(ReturnObjects, MaxReturns)}

OrderModels ==
    {[BaseModel EXCEPT !.flags = f, !.data = <<"title">>, !.hooks = h,
                       !.asyncData = [present |-> TRUE,
                                      returns |-> <<<<ReturnProp("links", "pair")>>>>]] :
        f \in SUBSET Flags, h \in {<<"mounted">>, <<"created", "mounted">>}}

GetterModels ==
    {[BaseModel EXCEPT !.vuexComputed = <<c>>, !.vuex = vx] :
        c \in ComputedCalls, vx \in VuexOptions \cup CustomVuexOptions}

MixinModels ==
    {[BaseModel EXCEPT !.mixin = [tracked |-> t, uses |-> u], !.flags = f] :
        t \in BOOLEAN, u \in SUBSET MixinPlaces, f \in {{}, {"methods"}}}

Models == HookModels \cup AsyncModels \cup OrderModels \cup GetterModels \cup MixinModels

InitEmit ==
    /\ epc = "model"
    /\ model \in Models
    /\ script = <<>>
    /\ RewriteIdle /\ BodyIdle /\ StoreIdle /\ ImportsIdle /\ BatchIdle /\ ConfiguredIdle /\ CallsIdle /\ TemplateIdle /\ EmitsIdle /\ WatchIdle /\ MethodsIdle /\ PassesIdle /\ HelpersIdle

\* transformToCompositionAPI(...)
Emit ==
    /\ epc = "model"
    /\ script' = EmitScript(model)
    /\ epc' = "emitted"
    /\ UNCHANGED model

NextEmit == Emit /\ UNCHANGED <<rvars, bvars, svars, ivars, cvars, hvars, kvars, tvars, mvars, wvars, dvars, pvars, nvars>>

SpecEmit == InitEmit /\ [][NextEmit]_vars

(***************************************************************************)
(* Properties of the emitted script                                        *)
(***************************************************************************)
Registrations(kind) ==
    {i \in DOMAIN script : script[i].sec = "hooks" /\ script[i].kind = kind}

\* C14: with both beforeDestroy and beforeUnmount there is exactly one
\* onBeforeUnmount registration and it holds both bodies; the same for
\* destroyed and unmounted with onUnmounted; a beforeDestroy (destroyed)
\* without its counterpart is registered alone as onBeforeUnmount (onUnmounted)
C14_LifecycleMerged ==
    epc = "emitted" =>
        LET H == Range(model.hooks)
            Merged(old, new, kind) ==
                {old, new} \subseteq H =>
                    /\ Cardinality(Registrations(kind)) = 1
                    /\ \A i \in Registrations(kind) :
                          {old, new} \subseteq Range(script[i].parts)
            Alone(old, new, kind) ==
                (old \in H /\ new \notin H) =>
                    /\ Cardinality(Registrations(kind)) = 1
                    /\ \A i \in Registrations(kind) : script[i].parts = <<old>>
        IN  /\ Merged("beforeDestroy", "beforeUnmount", "onBeforeUnmount")
            /\ Merged("destroyed", "unmounted", "onUnmounted")
            /\ Alone("beforeDestroy", "beforeUnmount", "onBeforeUnmount")
            /\ Alone("destroyed", "unmounted", "onUnmounted")

\* the property names the return statements of asyncData hold
ReturnedNames ==
    UNION {{model.asyncData.returns[i][j].name : j \in DOMAIN model.asyncData.returns[i]} :
           i \in DOMAIN model.asyncData.returns}

\* C15: every property name asyncData returns has exactly one declaration
\* `const <name> = ref(data.<name>)`, after the useAsyncData call, and no
\* plain `const <name> = ref(<initializer>)`
C15_AsyncDataRefs ==
    (epc = "emitted" /\ model.asyncData.present) =>
        \A n \in ReturnedNames :
            /\ Cardinality({i \in DOMAIN script :
                   /\ script[i].kind = "ref" /\ script[i].name = n
                   /\ script[i].parts = <<"data">>
                   /\ \E k \in 1..(i - 1) : script[k].kind = "useAsyncData"}) = 1
            /\ ~\E i \in DOMAIN script :
                   /\ script[i].kind = "ref" /\ script[i].name = n
                   /\ script[i].parts = <<"initializer">>

SectionRank(sec) ==
    CASE sec = "imports" -> 1
      [] sec = "uses" -> 2
      [] sec = "state" -> 3
      [] sec = "computed" -> 4
      [] sec = "asyncData" -> 5
      [] sec = "head" -> 6
      [] sec = "methods" -> 7
      [] sec = "fetch" -> 8
      [] sec = "watchers" -> 9
      [] sec = "hooks" -> 10
      [] sec = "fetchCall" -> 11

C19_GetterHeuristic ==
    (epc = "emitted" /\ model.vuexComputed # <<>>) =>
        LET c == model.vuexComputed[1]
            v == c.pairs[1].value
            own == IF v.ns # "" THEN v.ns ELSE c.namespace
            cfg == RegisterStores(model.vuex, c).cfg
            S == {i \in DOMAIN script : script[i].sec = "computed"
                                         /\ script[i].name = "mapped"}
        IN  /\ \A i \in S :
                  /\ script[i].kind = "call" <=>
                         (c.type = "mapGetters" /\ StartsWithGet(v.name))
                  /\ script[i].kind \in {"call", "accessor"}
                  /\ script[i].parts = <<GetStoreInstanceName(cfg[own]), v.name>>
            /\ cfg[own] # "" => Cardinality(S) = 1

C19_Witness ==
    /\ epc = "emitted"
    /\ \E i \in DOMAIN script :
          script[i].kind = "call" /\ script[i].parts = <<"shopStore", "getUser">>
    /\ model.vuexComputed[1].type = "mapGetters"

\* C20: the destructuring of a tracked mixin holds the symbol exactly when the
\* component uses it, in the template or anywhere in the script
C20_MixinDestructuring ==
    (epc = "emitted" /\ model.mixin.tracked) =>
        ((\E i \in DOMAIN script :
              script[i].kind = "destructure" /\ "greet" \in Range(script[i].parts))
         <=> model.mixin.uses # {})

(***************************************************************************)
(* Text rewrites of transformMethodBody: this.$set / this.$delete and      *)
(* this.$store.commit / this.$store.dispatch.  A text is a sequence of     *)
(* pieces; "," "(" ")" "[" "]" are pieces of their own, white space is     *)
(* left out.                                                               *)
(***************************************************************************)
\* the longest prefix of text that has no piece of stops: what [^,]+ or
\* [^)]+ captures
RECURSIVE UpTo(_, _)
UpTo(text, stops) ==
    IF text = <<>> \/ Head(text) \in stops THEN <<>>
    ELSE <<Head(text)>> \o UpTo(Tail(text), stops)

\* text without its first n pieces
Drop(text, n) == SubSeq(text, n + 1, Len(text))

\* argument texts
ObjectTexts == { <<"obj">>, <<"rows", "[", "i", "]">> }

KeyTexts ==
    { <<"key">>,                                \* an identifier
      <<"'normal'">>,                           \* a quoted identifier
      <<"'a-b'">>,                              \* a quoted string that is none
      <<"tpl[${bob}]">>,                        \* a template literal
      <<"0">>,                                  \* a number
      <<"keyOf", "(", "item", ")">>,            \* a call
      <<"pair", "(", "a", ",", "b", ")">> }     \* a call with two arguments

ValueTexts == { <<"v">>, <<"f", "(", "x", ")">> }

\* simpleQuotedString: the trimmed key is a quoted identifier; the name
\* inside the quotes, the empty string when the key is not of that form
SimpleQuotedString(key) ==
    IF key = <<"'normal'">> THEN "normal" ELSE ""

\* /^[a-zA-Z_$][a-zA-Z0-9_$]*$/ on the trimmed key
IsIdentifier(key) == Len(key) = 1 /\ key[1] \in {"key", "obj", "v", "item", "a", "b", "x", "i", "f", "keyOf", "pair", "rows"}

\* the member access written for object and key: dot form or bracket form
Member(object, key) ==
    IF SimpleQuotedString(key) # "" THEN object \o <<".", SimpleQuotedString(key)>>
    ELSE IF IsIdentifier(key) THEN object \o <<".", key[1]>>
    ELSE object \o <<"[">> \o key \o <<"]">>

\* .replace(/this\.\$set\(\s*([^,]+)\s*,\s*([^,]+)\s*,\s*([^)]+)\s*\)/g, ...)
\* on a text that starts with this.$set(
ReplaceSet(text) ==
    LET t1 == Drop(text, 1)
        object == UpTo(t1, {","})
        t2 == Drop(t1, Len(object) + 1)
        key == UpTo(t2, {","})
        t3 == Drop(t2, Len(key) + 1)
        value == UpTo(t3, {")"})
        rest == Drop(t3, Len(value) + 1)
    IN  IF /\ object # <<>> /\ Len(t1) > Len(object)
           /\ key # <<>> /\ Len(t2) > Len(key)
           /\ value # <<>> /\ Len(t3) > Len(value)
        THEN Member(object, key) \o <<"=">> \o value \o rest
        ELSE text

\* .replace(/this\.\$delete\(\s*([^,]+)\s*,\s*([^)]+)\s*\)/g, ...) on a text
\* that starts with this.$delete(
ReplaceDelete(text) ==
    LET t1 == Drop(text, 1)
        object == UpTo(t1, {","})
        t2 == Drop(t1, Len(object) + 1)
        key == UpTo(t2, {")"})
        rest == Drop(t2, Len(key) + 1)
    IN  IF /\ object # <<>> /\ Len(t1) > Len(object)
           /\ key # <<>> /\ Len(t2) > Len(key)
        THEN <<"delete">> \o Member(object, key) \o rest
        ELSE text

\* the first arguments of this.$store.commit / this.$store.dispatch, with
\* what actionPath.split("/") makes of them
ActionPaths ==
    { [text |-> "'cart/addItem'", namespace |-> "cart", actionName |-> "addItem"],
      [text |-> "'user/setName'", namespace |-> "user", actionName |-> "setName"] }

PayloadTexts == { <<>>, <<"item">>, <<"f", "(", "x", ")">> }

SplitPath(piece) == CHOOSE p \in ActionPaths : p.text = piece

\* one .replace of transformStoreCommitDispatch on a text that starts with
\* this.$store.commit( or this.$store.dispatch(: the quoted path, an optional
\* comma, the payload up to the first closing parenthesis
ReplaceStoreCall(text, vx) ==
    LET actionPath == SplitPath(text[2])
        t1 == Drop(text, 2)
        t2 == IF t1 # <<>> /\ Head(t1) = "," THEN Tail(t1) ELSE t1
        payload == UpTo(t2, {")"})
        rest == Drop(t2, Len(payload) + 1)
        storeConfig == StoreConfig(vx, actionPath.namespace)
    IN  IF Len(t2) > Len(payload) /\ storeConfig # ""
        THEN <<GetStoreInstanceName(storeConfig), ".", actionPath.actionName, "(">>
               \o payload \o <<")">> \o rest
        ELSE text

TransformStoreCommitDispatch(text, vx) ==
    IF vx.on /\ text # <<>> /\ Head(text) \in {"this.$store.commit(", "this.$store.dispatch("}
    THEN ReplaceStoreCall(text, vx)
    ELSE text

\* the statements a method body is made of here
SetStatements ==
    { [kind |-> "set", object |-> o, key |-> k, value |-> v,
       path |-> "", payload |-> <<>>,
       text |-> <<"this.$set(">> \o o \o <<",">> \o k \o <<",">> \o v \o <<")">>] :
        o \in ObjectTexts, k \in KeyTexts, v \in ValueTexts }

DeleteStatements ==
    { [kind |-> "delete", object |-> o, key |-> k, value |-> <<>>,
       path |-> "", payload |-> <<>>,
       text |-> <<"this.$delete(">> \o o \o <<",">> \o k \o <<")">>] :
        o \in ObjectTexts, k \in KeyTexts }

StoreStatements ==
    { [kind |-> c, object |-> <<>>, key |-> <<>>, value |-> <<>>,
       path |-> p.text, payload |-> pl,
       text |-> <<"this.$store." \o c \o "(", p.text>>
                  \o (IF pl = <<>> THEN <<>> ELSE <<",">> \o pl) \o <<")">>] :
        c \in {"commit", "dispatch"}, p \in ActionPaths, pl \in PayloadTexts }

Statements == SetStatements \cup DeleteStatements \cup StoreStatements

\* options.vuex as the caller passes it: no vuex option, or any of the
\* namespaces configured, cart with a composable named in one of three ways
CallConfigs ==
    {NoVuex} \cup
    { [on |-> TRUE, cfg |-> [ns \in Namespaces |-> IF ns = "cart" THEN c ELSE u]] :
        c \in {"", "useCartStore", "useShopStore", "useCart"},
        u \in {"", "useUserStore"} }

InitCalls ==
    /\ kpc = "parsed"
    /\ stmt \in { [s |-> st, vuex |-> vx] : st \in Statements, vx \in CallConfigs }
    /\ rewritten = <<>>
    /\ RewriteIdle /\ BodyIdle /\ StoreIdle /\ ImportsIdle /\ BatchIdle /\ ConfiguredIdle /\ EmitIdle /\ TemplateIdle /\ EmitsIdle /\ WatchIdle /\ MethodsIdle /\ PassesIdle /\ HelpersIdle

\* detectDirectStoreUsage
DetectDirectStoreUsage(st) == st.kind \in {"commit", "dispatch"}

\* the $set, $delete, commit and dispatch replacements of transformMethodBody
\* in the order of the code
TransformMethodBodyCalls(text, vx) ==
    LET t1 == IF Head(text) = "this.$set(" THEN ReplaceSet(text) ELSE text
        t2 == IF Head(t1) = "this.$delete(" THEN ReplaceDelete(t1) ELSE t1
    IN  TransformStoreCommitDispatch(t2, vx)

\* the store imports added for direct store usage: every configured store
\* (no map helper is used here, so usedStores is empty)
DirectStoreImports(direct, vx) ==
    IF direct /\ vx.on THEN {vx.cfg[ns] : ns \in {n \in Namespaces : vx.cfg[n] # ""}} ELSE {}

\* the store instances added for direct store usage
DirectStoreInstances(direct, vx) ==
    {Construct(c, GetStoreInstanceName(c)) : c \in DirectStoreImports(direct, vx)}

\* rewriteSFC on a component whose one method holds the statement
RewriteCalls ==
    /\ kpc = "parsed"
    /\ LET direct == DetectDirectStoreUsage(stmt.s)
           vx == IF direct
                 THEN RegisterDirect(stmt.vuex, {SplitPath(stmt.s.path).namespace})
                 ELSE stmt.vuex
       IN  rewritten' = [text |-> TransformMethodBodyCalls(stmt.s.text, vx),
                         vuex |-> vx,
                         imports |-> DirectStoreImports(direct, vx),
                         instances |-> DirectStoreInstances(direct, vx)]
    /\ kpc' = "done"
    /\ UNCHANGED stmt

NextCalls == RewriteCalls /\ UNCHANGED <<rvars, bvars, svars, ivars, cvars, hvars, evars, tvars, mvars, wvars, dvars, pvars, nvars>>

SpecCalls == InitCalls /\ [][NextCalls]_vars

\* the keys the dot form is for: identifiers and quoted identifiers, with
\* the member name each denotes
DotKeys == { <<"key">>, <<"'normal'">> }

DotName(key) == IF key = <<"'normal'">> THEN "normal" ELSE key[1]

\* C18: this.$set(obj, key, v) becomes obj.<key> = v and this.$delete(obj,
\* key) becomes delete obj.<key> when key is an identifier or a quoted
\* identifier; for every other key expression they become obj[key] = v and
\* delete obj[key].
C18_SetDeleteForms ==
    kpc = "done" /\ stmt.s.kind \in {"set", "delete"} =>
        LET st == stmt.s
            member == IF st.key \in DotKeys
                      THEN st.object \o <<".", DotName(st.key)>>
                      ELSE st.object \o <<"[">> \o st.key \o <<"]">>
        IN  rewritten.text = IF st.kind = "set"
                             THEN member \o <<"=">> \o st.value
                             ELSE <<"delete">> \o member

\* the instance name of the claim: the import name without its use prefix,
\* first letter in lower case
Uncapitalized ==
    [useUserStore |-> "userStore", useCartStore |-> "cartStore",
     useShopStore |-> "shopStore", useCart |-> "cart"]

\* C16: a direct this.$store.commit('<ns>/<name>', payload) or
\* this.$store.dispatch('<ns>/<name>', payload) whose namespace is configured
\* becomes <instance>.<name>(payload), <instance>.<name>() without payload,
\* where <instance> is the configured import name without use and with a
\* lower-case first letter, and that instance is imported and instantiated.
C16_DirectStoreCalls ==
    kpc = "done" /\ stmt.s.kind \in {"commit", "dispatch"} =>
        LET p == SplitPath(stmt.s.path)
            importName == stmt.vuex.cfg[p.namespace]
        IN  stmt.vuex.on /\ importName # "" =>
               /\ rewritten.text = <<Uncapitalized[importName], ".", p.actionName, "(">>
                                      \o stmt.s.payload \o <<")">>
               /\ importName \in rewritten.imports
               /\ Construct(importName, Uncapitalized[importName]) \in rewritten.instances

(***************************************************************************)
(* $store.state accessors of the template                                  *)
(***************************************************************************)
MaxPlaces == 2

\* where an accessor stands: in a text node ({{ ... }}) or in the value of a
\* directive or bound attribute (v-if="...", :title="...")
Wheres == {"text", "attr"}

\* $store.state.<ns>.<prop> at a place of the template
Accessor(where, ns, prop) == [where |-> where, root |-> "$store.state." \o ns, ns |-> ns, prop |-> prop]

Accessors == { Accessor(w, ns, "userID") : w \in Wheres, ns \in Namespaces }

\* transformStoreUsageInTemplate on one accessor of a text node: one
\* replace per entry of the vuex configuration
TransformStoreUsageInTemplate(a, vx) ==
    IF vx.cfg[a.ns] # "" THEN [a EXCEPT !.root = GetStoreInstanceName(vx.cfg[a.ns])] ELSE a

\* the `text` handler of the rewriter: `if (options.vuex) content = ...`
TextHandler(a, vx) == IF vx.on THEN TransformStoreUsageInTemplate(a, vx) ELSE a

\* the `element` handler reads the attribute values (template variables,
\* i18n usage) and writes none of them back, img src apart
ElementHandler(a, vx) == a

InitTemplate ==
    /\ tpc = "in"
    /\ tplIn \in { [places |-> ps, vuex |-> vx] :
                   ps \in SeqsUpTo(Accessors, MaxPlaces) \ {<<>>},
                   vx \in VuexOptions \cup CustomVuexOptions }
    /\ tplOut = <<>>
    /\ RewriteIdle /\ BodyIdle /\ StoreIdle /\ ImportsIdle /\ BatchIdle /\ ConfiguredIdle /\ EmitIdle /\ CallsIdle /\ EmitsIdle /\ WatchIdle /\ MethodsIdle /\ PassesIdle /\ HelpersIdle

\* rewriter.write(templateContent); rewriter.end()
RewriteStoreUsage ==
    /\ tpc = "in"
    /\ tplOut' = [i \in DOMAIN tplIn.places |->
                    IF tplIn.places[i].where = "text"
                    THEN TextHandler(tplIn.places[i], tplIn.vuex)
                    ELSE ElementHandler(tplIn.places[i], tplIn.vuex)]
    /\ tpc' = "out"
    /\ UNCHANGED tplIn

NextTemplate == RewriteStoreUsage /\ UNCHANGED <<rvars, bvars, svars, ivars, cvars, hvars, evars, kvars, mvars, wvars, dvars, pvars, nvars>>

SpecTemplate == InitTemplate /\ [][NextTemplate]_vars

\* C21: in the rewritten template every $store.state.<ns>.<prop> of a
\* configured namespace reads <instance>.<prop>, in text interpolations and
\* in directive and bound attribute values alike, with the instance name the
\* script uses for the namespace.
C21_TemplateStoreState ==
    tpc = "out" =>
        \A i \in DOMAIN tplIn.places :
            LET a == tplIn.places[i]
            IN  (tplIn.vuex.on /\ tplIn.vuex.cfg[a.ns] # "") =>
                   /\ tplOut[i].root = GetStoreInstanceName(tplIn.vuex.cfg[a.ns])
                   /\ tplOut[i].prop = a.prop

(***************************************************************************)
(* this.$emit: extractEmits and the $emit replacement of                   *)
(* transformMethodBody                                                     *)
(***************************************************************************)
MaxEmits == 2

EventNames == {"input", "change", "update:value"}

\* what follows the quoted event name inside the parentheses
EmitArgs ==
    {"none",        \* this.$emit('change')
     "inline",      \* this.$emit('change', value): the arguments on the line
     "multiline"}   \* this.$emit('change', {   the arguments go on over
                    \*   id: 1,                 several lines
                    \* })

EmitCall(callee, name, args) == [callee |-> callee, name |-> name, args |-> args]

EmitCalls == { EmitCall("this.$emit", n, a) : n \in EventNames, a \in EmitArgs }

\* 'input' becomes 'update:value' for v-model compatibility
TransformedEventName(name) == IF name = "input" THEN "update:value" ELSE name

\* emits.add(eventName) over the calls in source order: a Set keeps the
\* first insertion of each name
RECURSIVE ExtractEmits(_, _)
ExtractEmits(calls, emits) ==
    IF calls = <<>> THEN emits
    ELSE LET eventName == TransformedEventName(Head(calls).name)
         IN  ExtractEmits(Tail(calls),
                          IF \E i \in DOMAIN emits : emits[i] = eventName
                          THEN emits ELSE Append(emits, eventName))

\* /this\.\$emit\(\s*['"]([^'"]+)['"]\s*(,.*?)?\)/g: the dot of (,.*?) stops
\* at the end of the line
EmitPatternMatches(c) == c.callee = "this.$emit" /\ c.args \in {"none", "inline"}

\* the $emit replacement, then /this\.([a-zA-Z_$][a-zA-Z0-9_$]*)\(/g -> "$1("
TransformEmitCall(c) ==
    IF EmitPatternMatches(c)
    THEN EmitCall("emit", TransformedEventName(c.name), c.args)
    ELSE IF c.callee = "this.$emit" THEN [c EXCEPT !.callee = "$emit"]
    ELSE c

InitEmits ==
    /\ mpc = "in"
    /\ emitCalls \in SeqsUpTo(EmitCalls, MaxEmits) \ {<<>>}
    /\ emitOut = <<>>
    /\ RewriteIdle /\ BodyIdle /\ StoreIdle /\ ImportsIdle /\ BatchIdle /\ ConfiguredIdle /\ EmitIdle /\ CallsIdle /\ TemplateIdle /\ WatchIdle /\ MethodsIdle /\ PassesIdle /\ HelpersIdle

\* rewriteSFC: extractEmits on the parsed script, `const emit =
\* defineEmits([...])`, every body through transformMethodBody
RewriteEmits ==
    /\ mpc = "in"
    /\ emitOut' = [defineEmits |-> ExtractEmits(emitCalls, <<>>),
                   calls |-> [i \in DOMAIN emitCalls |-> TransformEmitCall(emitCalls[i])]]
    /\ mpc' = "out"
    /\ UNCHANGED emitCalls

NextEmits == RewriteEmits /\ UNCHANGED <<rvars, bvars, svars, ivars, cvars, hvars, evars, kvars, tvars, wvars, dvars, pvars, nvars>>

SpecEmits == InitEmits /\ [][NextEmits]_vars

Declared == {emitOut.defineEmits[i] : i \in DOMAIN emitOut.defineEmits}

\* C22: 'input' is replaced by 'update:value' in the defineEmits list and in
\* every rewritten emit call; every event name of an emitted emit('<name>',
\* ...) call is in the defineEmits array; the array lists each name once.
C22_EmitConsistency ==
    mpc = "out" =>
        /\ "input" \notin Declared
        /\ \A i \in DOMAIN emitOut.calls : emitOut.calls[i].name # "input"
        /\ \A i \in DOMAIN emitOut.calls :
              emitOut.calls[i].callee = "emit" => emitOut.calls[i].name \in Declared
        /\ Cardinality(Declared) = Len(emitOut.defineEmits)

(***************************************************************************)
(* Watchers: extractWatchers and section 6 of transformToCompositionAPI    *)
(***************************************************************************)
MaxWatchers == 2

WatchTargets == <<"count", "title", "user">>

\* the handler texts; "(" ")" "{" "}" "," are pieces of their own
HandlerParams == { <<>>, <<"newVal", ",", "oldVal">> }

HandlerBodies ==
    { <<"done", "=", "true">>,
      <<"log", "(", "'changed'", ",", "val", ")">> }

\* count(newVal, oldVal) { ... }           form "method"
\* count: function (newVal, oldVal) { ... } form "function"
\* count: (newVal, oldVal) => { ... }       form "arrow"
\* count: val => { ... }                    form "bare": one parameter, no
\*                                          parentheses around it
\* count: { handler(...) { ... }, deep: true }  form "object"
Watcher(form, async, params, bodyText) ==
    [form |-> form, async |-> async, params |-> params, body |-> bodyText]

WatcherForms ==
    { Watcher(f, a, p, b) : f \in {"method", "function", "arrow"}, a \in BOOLEAN,
                            p \in HandlerParams, b \in HandlerBodies }
    \cup { Watcher("bare", a, <<"val">>, b) : a \in BOOLEAN, b \in HandlerBodies }
    \cup { Watcher("object", FALSE, <<"val">>, <<"done", "=", "true">>) }

\* content.slice(propValue.startIndex, propValue.endIndex) of a function
\* watcher
WatcherContent(name, w) ==
    (IF w.async THEN <<"async">> ELSE <<>>)
    \o (CASE w.form = "method" -> <<name>>
          [] w.form = "function" -> <<"function">>
          [] OTHER -> <<>>)
    \o (IF w.form = "bare" THEN w.params ELSE <<"(">> \o w.params \o <<")">>)
    \o (IF w.form \in {"arrow", "bare"} THEN <<"=>">> ELSE <<>>)
    \o <<"{">> \o w.body \o <<"}">>

\* watchers[watchName] = { type, content }
ExtractWatcher(name, w) ==
    [name |-> name,
     type |-> IF w.form = "object" THEN "object" ELSE "function",
     content |-> IF w.form = "object" THEN <<>> ELSE WatcherContent(name, w)]

\* text from its first piece p on; the empty text when p is not in it
RECURSIVE From(_, _)
From(text, p) ==
    IF text = <<>> THEN <<>>
    ELSE IF Head(text) = p THEN text
    ELSE From(Tail(text), p)

\* functionContent.match(/\(([^)]*)\)/): the first parenthesised group
\* anywhere in the content; "newVal, oldVal" when there is none
ParamsMatch(content) ==
    LET t == From(content, "(")
        inner == IF t = <<>> THEN <<>> ELSE UpTo(Tail(t), {")"})
    IN  IF t # <<>> /\ Len(t) > Len(inner) + 1 THEN inner
        ELSE <<"newVal", ",", "oldVal">>

\* functionContent.match(/(\{[\s\S]*\})$/), without the braces
BodyMatch(content) ==
    LET t == From(content, "{")
    IN  IF t = <<>> THEN <<>> ELSE SubSeq(t, 2, Len(t) - 1)

\* watch(<watchName>, <async >(<params>) => { <body> });
WatchCall(wd) ==
    [target |-> wd.name,
     async |-> wd.content # <<>> /\ Head(wd.content) = "async",
     params |-> ParamsMatch(wd.content),
     body |-> BodyMatch(wd.content)]

RECURSIVE WatchersEmitted(_)
WatchersEmitted(wds) ==
    IF wds = <<>> THEN <<>>
    ELSE (IF Head(wds).type = "function" THEN <<WatchCall(Head(wds))>> ELSE <<>>)
         \o WatchersEmitted(Tail(wds))

InitWatch ==
    /\ wpc = "in"
    /\ watchers \in SeqsUpTo(WatcherForms, MaxWatchers) \ {<<>>}
    /\ Len(watchers) <= Len(WatchTargets)
    /\ watchOut = <<>>
    /\ RewriteIdle /\ BodyIdle /\ StoreIdle /\ ImportsIdle /\ BatchIdle /\ ConfiguredIdle /\ EmitIdle /\ CallsIdle /\ TemplateIdle /\ EmitsIdle /\ MethodsIdle /\ PassesIdle /\ HelpersIdle

\* extractWatchers, then the WATCHERS section
EmitWatchers ==
    /\ wpc = "in"
    /\ watchOut' = WatchersEmitted([i \in DOMAIN watchers |->
                                       ExtractWatcher(WatchTargets[i], watchers[i])])
    /\ wpc' = "out"
    /\ UNCHANGED watchers

NextWatch == EmitWatchers /\ UNCHANGED <<rvars, bvars, svars, ivars, cvars, hvars, evars, kvars, tvars, mvars, dvars, pvars, nvars>>

SpecWatch == InitWatch /\ [][NextWatch]_vars

CallsFor(name) == {j \in DOMAIN watchOut : watchOut[j].target = name}

\* C23: each function-form watcher is emitted as exactly one watch(<target>,
\* <callback>) whose callback is async exactly when the handler was declared
\* async and whose parameter list is the handler's; a watcher declared as a
\* { handler, ... } object is not emitted as a watch call.
C23_WatchersEmitted ==
    wpc = "out" =>
        \A i \in DOMAIN watchers :
            LET w == watchers[i]
                S == CallsFor(WatchTargets[i])
            IN  IF w.form = "object" THEN S = {}
                ELSE /\ Cardinality(S) = 1
                     /\ \A j \in S : /\ watchOut[j].async = w.async
                                     /\ watchOut[j].params = w.params

(***************************************************************************)
(* Methods: extractMethodsAndFetch and the methods of section 5            *)
(***************************************************************************)
MaxMethods == 2

MethodNames == <<"load", "save", "reset">>

MethodParams == { "()", "(id, force)" }

\* what the body holds: nothing of interest, or a nested async function
\* such as `const later = async () => { ... }` (the text "async " with it)
MethodBodies == {"plain", "nestedAsync"}

\* a method_definition node; claimed: its name is also a key of the computed
\* or of the watch object
MethodDefinition(async, parameters, bodyText, claimed) ==
    [async |-> async, parameters |-> parameters, body |-> bodyText, claimed |-> claimed]

MethodDefinitions ==
    { MethodDefinition(a, p, b, c) :
        a \in BOOLEAN, p \in MethodParams, b \in MethodBodies, c \in BOOLEAN }

\* fullMethodDef.includes("async ")
IncludesAsync(m) == m.async \/ m.body = "nestedAsync"

\* the traverse of extractMethodsAndFetch: regularMethods, in source order
RECURSIVE ExtractMethods(_, _)
ExtractMethods(defs, i) ==
    IF i > Len(defs) THEN <<>>
    ELSE (IF defs[i].claimed THEN <<>>
          ELSE <<[name |-> MethodNames[i],
                  content |-> defs[i].body,
                  parameters |-> defs[i].parameters,
                  isAsync |-> IncludesAsync(defs[i])]>>)
         \o ExtractMethods(defs, i + 1)

\* const <methodName> = <async ><parameters> => { <body> };
MethodFunction(md) ==
    [name |-> md.name, async |-> md.isAsync, parameters |-> md.parameters]

InitMethods ==
    /\ dpc = "in"
    /\ methods \in SeqsUpTo(MethodDefinitions, MaxMethods) \ {<<>>}
    /\ Len(methods) <= Len(MethodNames)
    /\ methodsOut = <<>>
    /\ RewriteIdle /\ BodyIdle /\ StoreIdle /\ ImportsIdle /\ BatchIdle /\ ConfiguredIdle /\ EmitIdle /\ CallsIdle /\ TemplateIdle /\ EmitsIdle /\ WatchIdle /\ PassesIdle /\ HelpersIdle

\* extractMethodsAndFetch, then "Add regular methods as arrow functions"
EmitMethods ==
    /\ dpc = "in"
    /\ LET regularMethods == ExtractMethods(methods, 1)
       IN  methodsOut' = [j \in DOMAIN regularMethods |-> MethodFunction(regularMethods[j])]
    /\ dpc' = "out"
    /\ UNCHANGED methods

NextMethods == EmitMethods /\ UNCHANGED <<rvars, bvars, svars, ivars, cvars, hvars, evars, kvars, tvars, mvars, wvars, pvars, nvars>>

SpecMethods == InitMethods /\ [][NextMethods]_vars

FunctionsFor(name) == {j \in DOMAIN methodsOut : methodsOut[j].name = name}

\* C24: every method of the component (a name claimed by a computed
\* property or a watcher apart) is emitted as a function with the original
\* parameter list, async exactly when the method was declared with the async
\* modifier.
C24_MethodsKeepAsync ==
    dpc = "out" =>
        \A i \in DOMAIN methods :
            ~methods[i].claimed =>
                /\ Cardinality(FunctionsFor(MethodNames[i])) = 1
                /\ \A j \in FunctionsFor(MethodNames[i]) :
                      /\ methodsOut[j].parameters = methods[i].parameters
                      /\ methodsOut[j].async = methods[i].async

(***************************************************************************)
(* Further properties of transformMethodBody                               *)
(***************************************************************************)
\* C25: a this.<name> inside a string literal or a comment of the body comes
\* out as it went in, whatever follows the name, and it puts no FIXME marker
\* on its line.
C25_StringsAndCommentsKept ==
    Rewritten =>
        \A p \in Positions :
            InTok(p).cx \in {"str", "cmt"} =>
                /\ OutTok(p) = InTok(p)
                /\ InTok(p).n \in Markers(out.lines[p[1]]) =>
                      \E q \in Positions :
                          /\ q[1] = p[1]
                          /\ InTok(q).cx = "code"
                          /\ InTok(q).n = InTok(p).n

\* the components that agree with comp on every category and differ in the
\* usage flags: $axios used or not, vuex configured or not
SameCategories ==
    { c \in Components : /\ c.cats = comp.cats
                         /\ c.propsOk = comp.propsOk
                         /\ c.methodProps = comp.methodProps }

\* C30: the rewrite of a this.<name> in code depends on the categories of the
\* name only: rewritten against a component with the same categories and
\* other usage flags, every reference (assignment targets included) whose
\* name is no mapped action comes out in the same form.
C30_CategoriesDecide ==
    Rewritten =>
        \A c \in SameCategories :
            \A p \in Positions :
                (InTok(p).cx = "code" /\ "action" \notin comp.cats[InTok(p).n]) =>
                    TransformMethodBody(body, c).lines[p[1]].toks[p[2]].k = OutTok(p).k

(***************************************************************************)
(* The order of the passes of transformMethodBody                          *)
(***************************************************************************)
MaxAccessors == 2

\* a pass: the accessors it rewrites and the flag it runs under ("" = always)
Pass(name, handles, flag) == [name |-> name, handles |-> handles, flag |-> flag]

\* the replacements of transformMethodBody, in the order of the code
Passes ==
    << Pass("i18n", {"$t", "$i18n.locale"}, ""),
       Pass("filters", {"$options.filters"}, "hasFilters"),
       Pass("emit", {"$emit"}, ""),
       Pass("setDelete", {"$set", "$delete"}, ""),
       Pass("fixme", {}, ""),
       Pass("axios", {"$axios"}, "hasAxios"),
       Pass("fetch", {"$fetch"}, ""),
       Pass("nextTick", {"$nextTick"}, "hasNextTick"),
       Pass("storeMethods", {}, "vuex"),
       Pass("calls", {"save"}, ""),
       Pass("eventBus", {"$nuxt.$on"}, "hasEventBus"),
       Pass("nuxtCompat", {"$nuxt.refresh"}, "hasNuxtCompat"),
       Pass("spread", {}, ""),
       Pass("structural", {"x"}, ""),
       Pass("refs", {"$refs"}, "hasRefs"),
       Pass("config", {"$config"}, "hasConfig"),
       Pass("nextTickAgain", {"$nextTick"}, "hasNextTick"),
       Pass("router", {"$route", "$router"}, "hasRouterUsage"),
       Pass("commitDispatch", {"$store.commit", "$store.dispatch"}, "vuex") >>

PassAt(name) == CHOOSE i \in DOMAIN Passes : Passes[i].name = name

\* the this.<...> accessors a body may hold
BodyAccessors == UNION {Passes[i].handles : i \in DOMAIN Passes}

\* propName.startsWith("$")
StartsWithDollar(a) == a \notin {"x", "save"}

\* the flag each accessor sets when the script holds it (the detect*
\* functions of rewriteSFC; options.vuex for direct store usage)
FlagOf(a) ==
    LET i == CHOOSE j \in DOMAIN Passes : a \in Passes[j].handles
    IN  Passes[i].flag

PassFlags == {Passes[i].flag : i \in DOMAIN Passes} \ {""}

\* a regular-expression pass: this.<accessor> becomes its replacement
Replace(p, t, fl) ==
    [a \in DOMAIN t |->
        IF t[a] = "this" /\ a \in p.handles /\ (p.flag = "" \/ p.flag \in fl)
        THEN "rewritten" ELSE t[a]]

\* the structural pass taking every this.<property> it meets
TransformThisReferencesNoSkip(t) ==
    [a \in DOMAIN t |-> IF t[a] = "this" THEN "value" ELSE t[a]]

\* transformThisReferencesWithTreeSitter: this.<property> becomes
\* <property>.value (or props.<property>, or the bare method name); a
\* property that starts with $ is skipped
TransformThisReferences(t) ==
    [a \in DOMAIN t |-> IF t[a] = "this" /\ ~StartsWithDollar(a) THEN "value" ELSE t[a]]

InitPasses ==
    /\ ppc = 1
    /\ \E held \in {S \in SUBSET BodyAccessors : S # {} /\ Cardinality(S) <= MaxAccessors} :
          /\ shapes = [a \in held |-> "this"]
          /\ passFlags \in { {FlagOf(a) : a \in held} \ {""}, PassFlags }
    /\ RewriteIdle /\ BodyIdle /\ StoreIdle /\ ImportsIdle /\ BatchIdle /\ ConfiguredIdle /\ EmitIdle /\ CallsIdle /\ TemplateIdle /\ EmitsIdle /\ WatchIdle /\ MethodsIdle /\ HelpersIdle

\* the next replacement of transformMethodBody
RunPass ==
    /\ ppc \in DOMAIN Passes
    /\ shapes' = IF Passes[ppc].name = "structural"
               THEN TransformThisReferences(shapes)
               ELSE Replace(Passes[ppc], shapes, passFlags)
    /\ ppc' = ppc + 1
    /\ UNCHANGED passFlags

NextPasses == RunPass /\ UNCHANGED <<rvars, bvars, svars, ivars, cvars, hvars, evars, kvars, tvars, mvars, wvars, dvars, nvars>>

SpecPasses == InitPasses /\ [][NextPasses]_vars

Special == {a \in DOMAIN shapes : StartsWithDollar(a)}

LateAccessors == {"$refs", "$config", "$route", "$router", "$store.commit", "$store.dispatch"}

BodyPlaces(h) ==
    {<<i, j>> \in (DOMAIN script) \X (1..2) :
        /\ script[i].sec = "hooks"
        /\ j \in DOMAIN script[i].parts
        /\ script[i].parts[j] = h}

\* C27: the body of every lifecycle method the extractor recognises
\* (beforeMount and the like included) is in the emitted script exactly
\* once, whatever other hooks the component has.
C27_HookBodiesOnce ==
    epc = "emitted" =>
        \A h \in Range(model.hooks) : Cardinality(BodyPlaces(h)) = 1

\* the statements of the emitted script that declare a top-level binding
\* (`const <name> = ...`)
Declarations ==
    {i \in DOMAIN script :
        /\ script[i].sec \in {"uses", "state", "computed", "asyncData", "methods", "fetch"}
        /\ script[i].kind # "destructure"
        /\ script[i].name # ""}

\* C28: no name is declared twice at the top level of the emitted script:
\* data refs, asyncData refs and the data result, template refs, computed
\* and store-derived computed, methods, fetch and composable instances have
\* pairwise distinct names.
C28_NoDuplicateBindings ==
    epc = "emitted" =>
        \A i \in Declarations : \A j \in Declarations :
            script[i].name = script[j].name => i = j

(***************************************************************************)
(* Identifiers the rewrite introduces, and their imports and declarations  *)
(***************************************************************************)
\* how the component reaches the user store
StoreUses ==
    {"none",
     "map",      \* computed: { ...mapState('user', { userID: 'userID' }) }
     "state",    \* $store.state.user.userID in the template or in a method
     "commit"}   \* this.$store.commit('user/setName', name) in a method

Usages ==
    [ data : BOOLEAN,            \* data() returns properties
      asyncProps : BOOLEAN,      \* asyncData returns key: value pairs
      computed : BOOLEAN,        \* the computed object has properties of its own
      watch : WatchForms,        \* a watcher, and how it is written
      nextTick : BOOLEAN,        \* the script holds this.$nextTick
      store : StoreUses,
      configured : BOOLEAN ]     \* options.vuex has an entry for user

\* options.vuex when the script is rewritten: an entry is there when the
\* caller gave one, or when a commit/dispatch names the namespace
HasStoreConfig(u) == u.configured \/ u.store = "commit"

\* vueImports
VueImports(u) ==
    (IF u.data THEN {"ref"} ELSE {})
    \cup (IF u.computed \/ u.store = "map" THEN {"computed"} ELSE {})
    \cup (IF u.nextTick THEN {"nextTick"} ELSE {})
    \cup (IF u.watch # "none" THEN {"watch"} ELSE {})

\* the store instances: those of vuexData.usedStores, and every configured
\* store when the script has a direct commit or dispatch
StoreInstances(u) ==
    IF HasStoreConfig(u) /\ u.store \in {"map", "commit"} THEN {"userStore"} ELSE {}

\* the identifiers the emitted script and template refer to
IdentifiersUsed(u) ==
    (IF u.data \/ u.asyncProps THEN {"ref"} ELSE {})
    \cup (IF u.computed \/ (u.store = "map" /\ u.configured) THEN {"computed"} ELSE {})
    \cup (IF u.nextTick THEN {"nextTick"} ELSE {})
    \cup (IF u.watch = "function" THEN {"watch"} ELSE {})
    \cup (IF HasStoreConfig(u) /\ u.store # "none" THEN {"userStore"} ELSE {})

InitHelpers ==
    /\ npc = "in"
    /\ compUse \in Usages
    /\ idents = <<>>
    /\ RewriteIdle /\ BodyIdle /\ StoreIdle /\ ImportsIdle /\ BatchIdle /\ ConfiguredIdle /\ EmitIdle /\ CallsIdle /\ TemplateIdle /\ EmitsIdle /\ WatchIdle /\ MethodsIdle /\ PassesIdle

\* rewriteSFC
RewriteComponent ==
    /\ npc = "in"
    /\ idents' = [declared |-> VueImports(compUse) \cup StoreInstances(compUse),
                  used |-> IdentifiersUsed(compUse)]
    /\ npc' = "out"
    /\ UNCHANGED compUse

NextHelpers == RewriteComponent /\ UNCHANGED <<rvars, bvars, svars, ivars, cvars, hvars, evars, kvars, tvars, mvars, wvars, dvars, pvars>>

SpecHelpers == InitHelpers /\ [][NextHelpers]_vars

\* C29: every identifier a rewrite rule puts into the output (ref, computed,
\* watch, nextTick, a store instance) is imported or declared there whenever
\* it occurs: ref also when only asyncData refs are emitted, the store
\* instance also when only commit/dispatch or $store.state is used.
C29_NoDanglingHelper ==
    npc = "out" => idents.used \subseteq idents.declared

====
